---------------------------- MODULE Spec2Model ----------------------------
(***************************************************************************)
(* A model of the XML deserialization of Asset Administration Shell files  *)
(* (aas/adapter/xml/xml_deserialization.py), of the IRI generator          *)
(* (aas/util/identification.py) and of the schema check of the compliance  *)
(* tool (aas/compliance_tool/compliance_check_json.py).                    *)
(*                                                                         *)
(* An XML element is a record [tag, attrib, text, children]; the           *)
(* constructor functions of the module are operators that return a result  *)
(* record [exc, val, log]: the exception that left the call (NoExc when it *)
(* returned), the value returned and the lines handed to the logger        *)
(* during the call.  read_xml_aas_file is a state machine with one step    *)
(* per iteration of its loops (Spec); CallSpec applies one function of the *)
(* module to one element; GenSpec runs NamespaceIRIGenerator.generate_id   *)
(* and SchemaSpec runs check_schema, one step per statement.               *)
(***************************************************************************)
EXTENDS Integers, Sequences, FiniteSets, TLC

VARIABLES
    doc,        \* the root element of the parsed file
    failsafe,   \* the failsafe argument of the running read_xml_aas_file call
    pc,         \* position of the call: "scan", "group", "returned", "raised"
    gi,         \* number of list groups of the root taken from `for list_ in root`
    ei,         \* number of elements taken from the findall() of the current group
    ret,        \* the DictObjectStore being filled: sequence of Identifiables
    yielded,    \* values yielded so far by the generator of the current group
    log,        \* lines handed to the logger since the call started
    exc,        \* the exception that left the call (NoExc if none)
    strictRun,  \* outcome of the finished non-failsafe call on the same file
    invocation, \* a single call of a function of the module: [fn, arg, failsafe]
    outcome,    \* the result record of that call (None while it has not run)
    _namespace, \* NamespaceIRIGenerator._namespace
    provider,   \* NamespaceIRIGenerator.provider: the Identifiers it holds
    _counter_cache, \* NamespaceIRIGenerator._counter_cache
    proposal,   \* generate_id: the proposal argument, quoted once line 92 has run
    counter,    \* generate_id: the local counter
    genpc,      \* position of generate_id: "idle", "ready", "loop", "returned"
    issued,     \* the Identifier generate_id returned (None if none yet)
    calls,      \* the generate_id calls that returned: [proposal, id, registered]
    steps,      \* ComplianceToolStateManager: the steps added, [name, status, log]
    schemapc,   \* position of check_schema: the statement it is at, "returned", "raised"
    added       \* number of steps the state manager held when check_schema was called

\* the variables of read_xml_aas_file
readVars == <<doc, failsafe, pc, gi, ei, ret, yielded, log, exc, strictRun>>
\* the variables of a single call
callVars == <<invocation, outcome>>
\* the variables of NamespaceIRIGenerator
genVars == <<_namespace, provider, _counter_cache, proposal, counter, genpc, issued,
             calls>>
\* the variables of check_schema
schemaVars == <<steps, schemapc, added>>

vars == <<readVars, callVars, genVars, schemaVars>>

-----------------------------------------------------------------------------
(* Python values *)

\* None, for every value that is an object (modelled as a record)
None == [none |-> TRUE]

\* None, where the value is otherwise a str
NoText == "<None>"

\* no exception
NoExc == [type |-> "NoException"]

Ok(v) == [exc |-> NoExc, val |-> v, log |-> <<>>]

Raise(type, msg) ==
    [exc |-> [type |-> type, msg |-> msg, cause |-> NoExc], val |-> None, log |-> <<>>]

\* raise type(msg) from cause
RaiseFrom(type, msg, cause) ==
    [exc |-> [type |-> type, msg |-> msg, cause |-> cause], val |-> None, log |-> <<>>]

Raised(r) == r.exc # NoExc

\* the call r, made after the lines l were already logged
WithLog(l, r) == [r EXCEPT !.log = l \o @]

\* a line handed to the logger; `at` is the element the logging call was working on
\* (it is not part of the line)
LogLine(level, msg, at) == [level |-> level, msg |-> msg, at |-> at]

\* r, and if it returned, the call F(r.val) after it
Then(r, F(_)) == IF Raised(r) THEN r ELSE WithLog(r.log, F(r.val))

RECURSIVE ArgsLog(_, _)
ArgsLog(args, n) == IF n = 0 THEN <<>> ELSE ArgsLog(args, n - 1) \o args[n].log

\* the arguments of a call, evaluated left to right: their values, or the first
\* exception raised by one of them
EvalArgs(args) ==
    IF \E i \in 1..Len(args) : Raised(args[i])
    THEN LET k == CHOOSE i \in 1..Len(args) :
                     Raised(args[i]) /\ \A j \in 1..(i - 1) : ~Raised(args[j])
         IN  [exc |-> args[k].exc, val |-> None, log |-> ArgsLog(args, k)]
    ELSE [exc |-> NoExc, val |-> [i \in 1..Len(args) |-> args[i].val],
          log |-> ArgsLog(args, Len(args))]

-----------------------------------------------------------------------------
(* xml.etree.ElementTree *)

Element(tag, attrib, text, children) ==
    [tag |-> tag, attrib |-> attrib, text |-> text, children |-> children]

\* Element.findall(tag): the direct children with the tag, in document order
FindAll(element, tag) == SelectSeq(element.children, LAMBDA c : c.tag = tag)

\* Element.find(tag): the first direct child with the tag, or None
Find(element, tag) ==
    LET found == FindAll(element, tag)
    IN  IF found = <<>> THEN None ELSE found[1]

NS_AAS == "{http://www.admin-shell.io/aas/2/0}"
NS_ABAC == "{http://www.admin-shell.io/aas/abac/2/0}"
NS_IEC == "{http://www.admin-shell.io/IEC61360/2/0}"


-----------------------------------------------------------------------------
(* str methods used by the module *)

ascii_lowercase == "abcdefghijklmnopqrstuvwxyz"
ascii_uppercase == "ABCDEFGHIJKLMNOPQRSTUVWXYZ"

\* the one-character string at (1-based) position i of s
CharAt(s, i) == SubSeq(s, i, i)

\* c.upper() and c.lower() for a one-character string c
UpperChar(c) ==
    IF \E i \in 1..Len(ascii_lowercase) : CharAt(ascii_lowercase, i) = c
    THEN CharAt(ascii_uppercase, CHOOSE i \in 1..Len(ascii_lowercase) : CharAt(ascii_lowercase, i) = c)
    ELSE c

LowerChar(c) ==
    IF \E i \in 1..Len(ascii_uppercase) : CharAt(ascii_uppercase, i) = c
    THEN CharAt(ascii_lowercase, CHOOSE i \in 1..Len(ascii_uppercase) : CharAt(ascii_uppercase, i) = c)
    ELSE c

\* s.lower()
RECURSIVE Lower(_)
Lower(s) ==
    IF Len(s) = 0 THEN ""
    ELSE IF Len(s) = 1 THEN LowerChar(s)
    ELSE Lower(SubSeq(s, 1, Len(s) \div 2)) \o Lower(SubSeq(s, Len(s) \div 2 + 1, Len(s)))

\* s.split(sep) for a one-character separator: the parts between the positions
\* of the separator
Split(s, sep) ==
    LET at == {i \in 1..Len(s) : CharAt(s, i) = sep}
        \* the k-th position of the separator; 0 and Len(s) + 1 bound the string
        pos(k) == IF k = 0 THEN 0
                  ELSE IF k > Cardinality(at) THEN Len(s) + 1
                  ELSE CHOOSE i \in at : Cardinality({j \in at : j < i}) = k - 1
    IN  [k \in 1..(Cardinality(at) + 1) |-> SubSeq(s, pos(k - 1) + 1, pos(k) - 1)]

\* "".join(parts)
RECURSIVE Join(_)
Join(parts) == IF parts = <<>> THEN "" ELSE Head(parts) \o Join(Tail(parts))

-----------------------------------------------------------------------------
(* helper functions for mandatory and optional children, attributes, text *)

_get_child_mandatory(parent, child_tag) ==
    LET child == Find(parent, child_tag)
    IN  IF child = None
        THEN Raise("KeyError", "XML element " \o parent.tag \o " has no child " \o child_tag \o "!")
        ELSE Ok(child)

_get_attrib_mandatory(element, attrib) ==
    IF attrib \notin DOMAIN element.attrib
    THEN Raise("KeyError", "XML element " \o element.tag \o " has no attribute with name "
                           \o attrib \o "!")
    ELSE Ok(element.attrib[attrib])

\* dct is a function from the valid strings to the mapped values
_get_attrib_mandatory_mapped(element, attrib, dct) ==
    LET attrib_value == _get_attrib_mandatory(element, attrib)
    IN  IF Raised(attrib_value) THEN attrib_value
        ELSE IF attrib_value.val \notin DOMAIN dct
        THEN Raise("ValueError", "Attribute " \o attrib \o " of XML element " \o element.tag
                                 \o " has invalid value: " \o attrib_value.val)
        ELSE Ok(dct[attrib_value.val])

_get_text_or_none(element) == IF element # None THEN element.text ELSE NoText

_get_text_mandatory(element) ==
    LET text == element.text
    IN  IF text = NoText
        THEN Raise("KeyError", "XML element " \o element.tag \o " has no text!")
        ELSE Ok(text)

\* variant: a text that is no key of the table is reported as a KeyError
_get_text_mandatory_mapped_key_error(element, dct) ==
    LET text == _get_text_mandatory(element)
    IN  IF Raised(text) THEN text
        ELSE IF text.val \notin DOMAIN dct
        THEN Raise("KeyError", "Text of XML element " \o element.tag \o " is invalid: " \o text.val)
        ELSE Ok(dct[text.val])

_get_text_mandatory_mapped(element, dct) ==
    LET text == _get_text_mandatory(element)
    IN  IF Raised(text) THEN text
        ELSE IF text.val \notin DOMAIN dct
        THEN Raise("ValueError", "Text of XML element " \o element.tag \o " is invalid: " \o text.val)
        ELSE Ok(dct[text.val])

\* variant: the __name__ of the constructor, not converted
_constructor_name_unconverted(constructor) == constructor

\* _construct_some_type -> SomeType; the constructor is given by its __name__
_constructor_name_to_typename(constructor) ==
    LET parts == Split(constructor, "_")
        words == SubSeq(parts, 3, Len(parts))
    IN  Join([i \in 1..Len(words) |-> UpperChar(Head(words[i])) \o Tail(words[i])])

\* str(exception): a KeyError shows the repr() of its argument
Str(exception) ==
    IF exception.type = "KeyError" THEN "'" \o exception.msg \o "'" ELSE exception.msg

_exception_to_str(exception) ==
    LET string == Str(exception)
    IN  IF exception.type = "KeyError" THEN SubSeq(string, 2, Len(string) - 1) ELSE string

\* the classes caught by `except (KeyError, ValueError)`: binascii.Error, whose
\* __name__ is "Error", is a subclass of ValueError
CaughtTypes == {"KeyError", "ValueError", "Error"}

\* variant: the loop putting each cause after the message instead of before it
RECURSIVE CauseChainOutermostFirst(_, _)
CauseChainOutermostFirst(cause, error_message) ==
    IF cause = NoExc THEN error_message
    ELSE CauseChainOutermostFirst(cause.cause,
                                  error_message \o "\n -> " \o _exception_to_str(cause))

\* the loop over cause.__cause__ of _failsafe_construct
RECURSIVE CauseChain(_, _)
CauseChain(cause, error_message) ==
    IF cause = NoExc THEN error_message
    ELSE CauseChain(cause.cause, _exception_to_str(cause) \o "\n -> " \o error_message)

-----------------------------------------------------------------------------
(* the lookup tables of aas.adapter._generic and aas.model.datatypes *)

MODELING_KIND_INVERSE == [Template |-> "ModelingKind.TEMPLATE", Instance |-> "ModelingKind.INSTANCE"]

ASSET_KIND_INVERSE == [Type |-> "AssetKind.TYPE", Instance |-> "AssetKind.INSTANCE"]

KEY_ELEMENTS_INVERSE ==
    [Asset |-> "KeyElements.ASSET",
     AssetAdministrationShell |-> "KeyElements.ASSET_ADMINISTRATION_SHELL",
     ConceptDescription |-> "KeyElements.CONCEPT_DESCRIPTION",
     Submodel |-> "KeyElements.SUBMODEL",
     Property |-> "KeyElements.PROPERTY",
     GlobalReference |-> "KeyElements.GLOBAL_REFERENCE"]

KEY_TYPES_INVERSE ==
    [IRI |-> "KeyType.IRI", IRDI |-> "KeyType.IRDI", Custom |-> "KeyType.CUSTOM",
     IdShort |-> "KeyType.IDSHORT", FragmentId |-> "KeyType.FRAGMENT_ID"]

IDENTIFIER_TYPES_INVERSE ==
    [IRI |-> "IdentifierType.IRI", IRDI |-> "IdentifierType.IRDI", Custom |-> "IdentifierType.CUSTOM"]

ENTITY_TYPES_INVERSE ==
    [CoManagedEntity |-> "EntityType.CO_MANAGED_ENTITY",
     SelfManagedEntity |-> "EntityType.SELF_MANAGED_ENTITY"]

\* the model class named by a KeyElements member
KEY_ELEMENTS_CLASSES_INVERSE ==
    ("KeyElements.ASSET" :> "Asset")
    @@ ("KeyElements.ASSET_ADMINISTRATION_SHELL" :> "AssetAdministrationShell")
    @@ ("KeyElements.CONCEPT_DESCRIPTION" :> "ConceptDescription")
    @@ ("KeyElements.SUBMODEL" :> "Submodel")
    @@ ("KeyElements.PROPERTY" :> "Property")

\* the XSD scalar types
XSD_TYPE_CLASSES ==
    [string |-> "datatypes.String", int |-> "datatypes.Int",
     boolean |-> "datatypes.Boolean", double |-> "datatypes.Double"]

\* the base classes of each model class (the class itself included)
Bases(cls) ==
    LET SubmodelElementBases == {"SubmodelElement", "Referable", "Qualifiable", "HasSemantics", "HasKind"}
        DataElementBases == SubmodelElementBases \cup {"DataElement"}
    IN  {cls} \cup
        CASE cls \in {"Property", "Range", "Blob", "File", "MultiLanguageProperty", "ReferenceElement"}
                -> DataElementBases
          [] cls \in {"RelationshipElement", "Operation", "Capability", "Entity", "BasicEvent",
                      "SubmodelElementCollection"}
                -> SubmodelElementBases
          [] cls = "AnnotatedRelationshipElement"
                -> SubmodelElementBases \cup {"RelationshipElement"}
          [] cls \in {"SubmodelElementCollectionOrdered", "SubmodelElementCollectionUnordered"}
                -> SubmodelElementBases \cup {"SubmodelElementCollection"}
          [] cls \in {"AssetAdministrationShell", "Asset", "ConceptDescription"}
                -> {"Identifiable", "Referable"}
          [] cls = "Submodel"
                -> {"Identifiable", "Referable", "HasSemantics", "Qualifiable", "HasKind"}
          [] cls = "View" -> {"Referable", "HasSemantics"}
          [] cls = "ConceptDictionary" -> {"Referable"}
          [] cls = "Qualifier" -> {"Constraint", "HasSemantics"}
          [] cls = "Formula" -> {"Constraint"}
          [] OTHER -> {}

\* isinstance(obj, base)
IsInstance(obj, base) == base \in Bases(obj.cls)

\* issubclass(cls, base)
IsSubclass(cls, base) == base \in Bases(cls)

-----------------------------------------------------------------------------
(* the classes of aas.model, as far as the deserialization sets their fields *)

ReferableFields == [id_short |-> NoText, category |-> NoText, description |-> None]

IdentifiableFields == ReferableFields @@ [administration |-> None]

HasSemanticsFields == [semantic_id |-> None]

QualifiableFields == [qualifier |-> {}]

\* an (Ordered)NamespaceSet, in insertion order
NamespaceSet(items) == [cls |-> "NamespaceSet", items |-> items]

\* a Python value held where an object may also be None
PyValue(py, v) == [py |-> py, v |-> v]

Key(type, local, value, id_type) ==
    [cls |-> "Key", type |-> type, local |-> local, value |-> value, id_type |-> id_type]

Reference(key) == [cls |-> "Reference", key |-> key]

AASReference(key, type_) == [cls |-> "AASReference", key |-> key, type |-> type_]

AdministrativeInformation(version, revision) ==
    [cls |-> "AdministrativeInformation", version |-> version, revision |-> revision]

Qualifier(type, value_type) ==
    [cls |-> "Qualifier", type |-> type, value_type |-> value_type, value |-> None,
     value_id |-> None] @@ HasSemanticsFields

Formula == [cls |-> "Formula", depends_on |-> {}]

Identifier(id, id_type) == [cls |-> "Identifier", id |-> id, id_type |-> id_type]

Security == [cls |-> "Security"]

View(id_short) ==
    [cls |-> "View", id_short |-> id_short, contained_element |-> {}]
    @@ ReferableFields @@ HasSemanticsFields

ConceptDictionary(id_short) ==
    [cls |-> "ConceptDictionary", id_short |-> id_short, concept_description |-> {}]
    @@ ReferableFields

OperationVariable(value) == [cls |-> "OperationVariable", value |-> value]

\* what every SubmodelElement.__init__ sets; kwargs is {} or {"kind": k}
SubmodelElement(cls, id_short, kwargs) ==
    [cls |-> cls, id_short |-> id_short,
     kind |-> IF "kind" \in DOMAIN kwargs THEN kwargs.kind ELSE "ModelingKind.INSTANCE"]
    @@ ReferableFields @@ HasSemanticsFields @@ QualifiableFields

AssetAdministrationShell(asset, identification) ==
    [cls |-> "AssetAdministrationShell", asset |-> asset, identification |-> identification,
     security |-> None, submodel |-> {}, view |-> {}, concept_dictionary |-> {},
     derived_from |-> None] @@ IdentifiableFields

Asset(kind, identification) ==
    [cls |-> "Asset", kind |-> kind, identification |-> identification,
     asset_identification_model |-> None, bill_of_material |-> None] @@ IdentifiableFields

Submodel(identification, kwargs) ==
    [cls |-> "Submodel", identification |-> identification,
     submodel_element |-> NamespaceSet(<<>>),
     kind |-> IF "kind" \in DOMAIN kwargs THEN kwargs.kind ELSE "ModelingKind.INSTANCE"]
    @@ IdentifiableFields @@ HasSemanticsFields @@ QualifiableFields

ConceptDescription(identification) ==
    [cls |-> "ConceptDescription", identification |-> identification, is_case_of |-> {}]
    @@ IdentifiableFields

\* NamespaceSet.add / list.append
Add(ns, x) == [ns EXCEPT !.items = Append(@, x)]

-----------------------------------------------------------------------------
(* conversions of element text: datatypes.from_xsd and base64.b64decode *)

digits == "0123456789"

IsDigit(c) == \E i \in 1..Len(digits) : CharAt(digits, i) = c

DigitValue(c) == (CHOOSE i \in 1..Len(digits) : CharAt(digits, i) = c) - 1

AllDigits(s) == \A i \in 1..Len(s) : IsDigit(CharAt(s, i))

\* the number written by a non-empty string of digits, after the digits read as acc
RECURSIVE DigitsValue(_, _)
DigitsValue(s, acc) ==
    IF s = "" THEN acc ELSE DigitsValue(Tail(s), 10 * acc + DigitValue(Head(s)))

\* the lexical form of an integer: an optional sign and at least one digit
IsIntLexical(s) ==
    LET body == IF s # "" /\ Head(s) \in {"-", "+"} THEN Tail(s) ELSE s
    IN  body # "" /\ AllDigits(body)

IntValue(s) ==
    IF Head(s) = "-" THEN 0 - DigitsValue(Tail(s), 0)
    ELSE IF Head(s) = "+" THEN DigitsValue(Tail(s), 0)
    ELSE DigitsValue(s, 0)

\* a decimal lexical form: an integer, or an integer, a point and digits
IsDecimalLexical(s) ==
    LET parts == Split(s, ".")
    IN  \/ Len(parts) = 1 /\ IsIntLexical(parts[1])
        \/ Len(parts) = 2 /\ IsIntLexical(parts[1]) /\ parts[2] # "" /\ AllDigits(parts[2])

\* the decimal as num / 10^scale
DecimalValue(s) ==
    LET parts == Split(s, ".")
        frac == IF Len(parts) = 2 THEN parts[2] ELSE ""
        whole == IntValue(parts[1])
        mag == DigitsValue(frac, IF whole < 0 THEN 0 - whole ELSE whole)
    IN  [num |-> IF Head(s) = "-" THEN 0 - mag ELSE mag, scale |-> Len(frac)]

\* datatypes.from_xsd(value, type_): the value of the text under the lexical rules
\* of the type, or a ValueError
from_xsd(value, type_) ==
    CASE type_ = "datatypes.String" -> Ok(PyValue("str", value))
      [] type_ = "datatypes.Int" ->
            IF IsIntLexical(value) THEN Ok(PyValue("int", IntValue(value)))
            ELSE Raise("ValueError", "invalid literal for int() with base 10: '" \o value \o "'")
      [] type_ = "datatypes.Boolean" ->
            IF value \in {"true", "1"} THEN Ok(PyValue("bool", TRUE))
            ELSE IF value \in {"false", "0"} THEN Ok(PyValue("bool", FALSE))
            ELSE Raise("ValueError", "Invalid literal for XSD bool type")
      [] type_ = "datatypes.Double" ->
            IF IsDecimalLexical(value) THEN Ok(PyValue("float", DecimalValue(value)))
            ELSE Raise("ValueError", "could not convert string to float: '" \o value \o "'")

base64_alphabet == "ABCDEFGHIJKLMNOPQRSTUVWXYZabcdefghijklmnopqrstuvwxyz0123456789+/"

IsBase64Char(c) == \E i \in 1..Len(base64_alphabet) : CharAt(base64_alphabet, i) = c

Base64Value(c) == (CHOOSE i \in 1..Len(base64_alphabet) : CharAt(base64_alphabet, i) = c) - 1

\* the next character of s that is a base64 character or a pad, "" if none
RECURSIVE binascii_find_valid(_)
binascii_find_valid(s) ==
    IF s = "" THEN ""
    ELSE IF IsBase64Char(Head(s)) \/ Head(s) = "=" THEN Head(s)
    ELSE binascii_find_valid(Tail(s))

\* binascii.a2b_base64 (not strict): characters outside the alphabet and misplaced
\* pads are skipped, a pad sequence ends the data, bits left over are an error
RECURSIVE a2b_base64(_, _, _, _, _)
a2b_base64(data, quad_pos, leftchar, leftbits, out) ==
    IF data = ""
    THEN IF leftbits # 0 THEN Raise("Error", "Incorrect padding") ELSE Ok(PyValue("bytes", out))
    ELSE LET this_ch == Head(data)
             rest == Tail(data)
         IN  IF this_ch = "="
             THEN IF quad_pos < 2 \/ (quad_pos = 2 /\ binascii_find_valid(rest) # "=")
                  THEN a2b_base64(rest, quad_pos, leftchar, leftbits, out)
                  ELSE Ok(PyValue("bytes", out))
             ELSE IF ~IsBase64Char(this_ch)
             THEN a2b_base64(rest, quad_pos, leftchar, leftbits, out)
             ELSE LET shifted == leftchar * 64 + Base64Value(this_ch)
                      bits == leftbits + 6
                  IN  IF bits >= 8
                      THEN a2b_base64(rest, (quad_pos + 1) % 4, shifted % (2 ^ (bits - 8)),
                                      bits - 8, Append(out, (shifted \div (2 ^ (bits - 8))) % 256))
                      ELSE a2b_base64(rest, (quad_pos + 1) % 4, shifted, bits, out)

b64decode(s) == a2b_base64(s, 0, 0, 0, <<>>)

-----------------------------------------------------------------------------
(* _failsafe_construct and its variants *)

\* constructor(element, failsafe): the constructor functions are given by name
\* the constructor functions and the wrappers call each other
RECURSIVE Call(_, _, _)
RECURSIVE _failsafe_construct(_, _, _)
RECURSIVE _failsafe_construct_mandatory(_, _)
RECURSIVE _failsafe_construct_multiple(_, _, _)
RECURSIVE _child_construct_mandatory(_, _, _)
RECURSIVE _amend_abstract_attributes(_, _, _)
RECURSIVE _construct_key(_, _)
RECURSIVE _construct_key_tuple(_, _)
RECURSIVE _construct_reference(_, _)
RECURSIVE _construct_aas_reference(_, _, _)
RECURSIVE _construct_submodel_reference(_, _)
RECURSIVE _construct_asset_reference(_, _)
RECURSIVE _construct_asset_administration_shell_reference(_, _)
RECURSIVE _construct_referable_reference(_, _)
RECURSIVE _construct_concept_description_reference(_, _)
RECURSIVE _construct_data_element_reference(_, _)
RECURSIVE _construct_administrative_information(_, _)
RECURSIVE _construct_lang_string_set(_, _)
RECURSIVE _construct_qualifier(_, _)
RECURSIVE _construct_formula(_, _)
RECURSIVE _construct_identifier(_, _)
RECURSIVE _construct_security(_, _)
RECURSIVE _construct_view(_, _)
RECURSIVE _construct_concept_dictionary(_, _)
RECURSIVE _construct_submodel_element(_, _)
RECURSIVE _construct_constraint(_, _)
RECURSIVE _construct_operation_variable(_, _)
RECURSIVE _construct_annotated_relationship_element(_, _)
RECURSIVE _construct_basic_event(_, _)
RECURSIVE _construct_blob(_, _)
RECURSIVE _construct_capability(_, _)
RECURSIVE _construct_entity(_, _)
RECURSIVE _construct_file(_, _)
RECURSIVE _construct_multi_language_property(_, _)
RECURSIVE _construct_operation(_, _)
RECURSIVE _construct_property(_, _)
RECURSIVE _construct_range(_, _)
RECURSIVE _construct_reference_element(_, _)
RECURSIVE _construct_relationship_element(_, _)
RECURSIVE _construct_submodel_element_collection(_, _)
RECURSIVE _construct_asset_administration_shell(_, _)
RECURSIVE _construct_asset(_, _)
RECURSIVE _construct_submodel(_, _)
RECURSIVE _construct_concept_description(_, _)

\* variant: the except clause raising without `from e`
FailsafeExceptNoCause(r, element, constructor, failsafe_) ==
    IF ~Raised(r) \/ r.exc.type \notin CaughtTypes THEN r
    ELSE IF ~failsafe_
         THEN WithLog(r.log, Raise(r.exc.type,
                                   "while converting XML element with tag " \o element.tag
                                   \o " to type " \o _constructor_name_to_typename(constructor)))
         ELSE [exc |-> NoExc, val |-> None,
               log |-> r.log \o
                   <<LogLine("ERROR", r.exc.type \o ": "
                                      \o CauseChain(r.exc, "while converting XML element with tag "
                                                           \o element.tag \o " to type "
                                                           \o _constructor_name_to_typename(constructor)),
                             element),
                     LogLine("ERROR", "Failed to construct "
                                      \o _constructor_name_to_typename(constructor) \o "!", element)>>]

\* variant: the except clause raising a ValueError whatever it caught
FailsafeExceptValueError(r, element, constructor, failsafe_) ==
    IF ~Raised(r) \/ r.exc.type \notin CaughtTypes THEN r
    ELSE IF ~failsafe_
         THEN WithLog(r.log, RaiseFrom("ValueError",
                                       "while converting XML element with tag " \o element.tag
                                       \o " to type " \o _constructor_name_to_typename(constructor),
                                       r.exc))
         ELSE [exc |-> NoExc, val |-> None,
               log |-> r.log \o
                   <<LogLine("ERROR", "ValueError: "
                                      \o CauseChain(r.exc, "while converting XML element with tag "
                                                           \o element.tag \o " to type "
                                                           \o _constructor_name_to_typename(constructor)),
                             element),
                     LogLine("ERROR", "Failed to construct "
                                      \o _constructor_name_to_typename(constructor) \o "!", element)>>]

\* variant: the except clause raising the caught exception again, without a frame
FailsafeExceptReraise(r, element, constructor, failsafe_) ==
    IF ~Raised(r) \/ r.exc.type \notin CaughtTypes \/ ~failsafe_ THEN r
    ELSE [exc |-> NoExc, val |-> None,
          log |-> r.log \o
              <<LogLine("ERROR", r.exc.type \o ": "
                                 \o CauseChain(r.exc, "while converting XML element with tag "
                                                      \o element.tag \o " to type "
                                                      \o _constructor_name_to_typename(constructor)),
                        element),
                LogLine("ERROR", "Failed to construct "
                                 \o _constructor_name_to_typename(constructor) \o "!", element)>>]

\* the except clause of _failsafe_construct, for the outcome r of the constructor call
FailsafeExcept(r, element, constructor, failsafe_) ==
    IF ~Raised(r) \/ r.exc.type \notin CaughtTypes THEN r
    ELSE LET type_name == _constructor_name_to_typename(constructor)
             error_message == "while converting XML element with tag " \o element.tag
                              \o " to type " \o type_name
         IN  IF ~failsafe_
             THEN WithLog(r.log, RaiseFrom(r.exc.type, error_message, r.exc))
             ELSE [exc |-> NoExc, val |-> None,
                   log |-> r.log \o
                       <<LogLine("ERROR", r.exc.type \o ": " \o CauseChain(r.exc, error_message),
                                 element),
                         LogLine("ERROR", "Failed to construct " \o type_name \o "!", element)>>]

\* variant: with failsafe=True nothing is constructed
_failsafe_construct_nothing(element, constructor, failsafe_) ==
    IF element = None \/ failsafe_ THEN Ok(None)
    ELSE FailsafeExcept(Call(constructor, element, failsafe_), element, constructor, failsafe_)

\* variant: an absent element is a failure like any other
_failsafe_construct_present(element, constructor, failsafe_) ==
    IF element = None
    THEN IF failsafe_
         THEN [exc |-> NoExc, val |-> None,
               log |-> <<LogLine("ERROR", "Failed to construct "
                                          \o _constructor_name_to_typename(constructor) \o "!",
                                 element)>>]
         ELSE Raise("KeyError", "no XML element to convert to type "
                                \o _constructor_name_to_typename(constructor))
    ELSE FailsafeExcept(Call(constructor, element, failsafe_), element, constructor, failsafe_)

_failsafe_construct(element, constructor, failsafe_) ==
    IF element = None THEN Ok(None)
    ELSE FailsafeExcept(Call(constructor, element, failsafe_), element, constructor, failsafe_)

\* the None check of _failsafe_construct_mandatory on the outcome of the wrapped call
MandatoryCheck(constructed) ==
    IF ~Raised(constructed) /\ constructed.val = None
    THEN WithLog(constructed.log,
                 Raise("TypeError", "The result of a non-failsafe _failsafe_construct() call was None! "
                                    \o "This is a bug in the pyAAS XML deserialization, please report it!"))
    ELSE constructed

\* variant: the wrapper is called with failsafe=True
_failsafe_construct_mandatory_lenient(element, constructor) ==
    MandatoryCheck(_failsafe_construct(element, constructor, TRUE))

\* variant: the constructor is called without the wrapper
_failsafe_construct_mandatory_unwrapped(element, constructor) ==
    MandatoryCheck(Call(constructor, element, FALSE))

_failsafe_construct_mandatory(element, constructor) ==
    MandatoryCheck(_failsafe_construct(element, constructor, FALSE))

\* variant: the value is yielded after those of the later iterations
YieldAfter(parsed, rest) ==
    [rest EXCEPT !.val = @ \o (IF parsed.val # None THEN <<parsed.val>> ELSE <<>>),
                 !.log = parsed.log \o @]

\* `if parsed is not None: yield parsed`, before what the later iterations yield
YieldBefore(parsed, rest) ==
    [rest EXCEPT !.val = (IF parsed.val # None THEN <<parsed.val>> ELSE <<>>) \o @,
                 !.log = parsed.log \o @]

\* variant: the loop of the generator ends at the first element that fails
YieldUntilFailure(parsed, elements, constructor, failsafe_) ==
    IF Raised(parsed) \/ parsed.val = None THEN [parsed EXCEPT !.val = <<>>]
    ELSE YieldBefore(parsed, _failsafe_construct_multiple(Tail(elements), constructor, failsafe_))

\* variant: the loop goes on over the later elements before the exception leaves
\* the generator
PastFailure(parsed, rest) ==
    IF Raised(parsed) THEN [parsed EXCEPT !.val = <<>>, !.log = @ \o rest.log]
    ELSE YieldBefore(parsed, rest)
YieldPastFailure(parsed, elements, constructor, failsafe_) ==
    PastFailure(parsed, _failsafe_construct_multiple(Tail(elements), constructor, failsafe_))

\* one iteration of the loop of the generator, for the outcome parsed of the wrapped
\* call on the first element
Yield(parsed, elements, constructor, failsafe_) ==
    IF Raised(parsed) THEN [parsed EXCEPT !.val = <<>>]
    ELSE YieldBefore(parsed, _failsafe_construct_multiple(Tail(elements), constructor, failsafe_))

\* the generator, consumed to its end or to the exception that leaves it: val is
\* the sequence of the values yielded
_failsafe_construct_multiple(elements, constructor, failsafe_) ==
    IF elements = <<>> THEN Ok(<<>>)
    ELSE Yield(_failsafe_construct(Head(elements), constructor, failsafe_),
               elements, constructor, failsafe_)

_child_construct_mandatory(parent, child_tag, constructor) ==
    Then(_get_child_mandatory(parent, child_tag),
         LAMBDA child : _failsafe_construct_mandatory(child, constructor))

_child_text_mandatory(parent, child_tag) ==
    Then(_get_child_mandatory(parent, child_tag), LAMBDA child : _get_text_mandatory(child))

_child_text_mandatory_mapped(parent, child_tag, dct) ==
    Then(_get_child_mandatory(parent, child_tag),
         LAMBDA child : _get_text_mandatory_mapped(child, dct))

\* the elements of a sequence, as a set
Range(seq) == {seq[i] : i \in 1..Len(seq)}

\* variant: the description is constructed with failsafe=False whatever the mode
_amend_abstract_attributes_strict_description(obj, element, failsafe_) ==
    LET referable(o) ==
            IF ~IsInstance(o, "Referable") THEN Ok(o)
            ELSE LET category == _get_text_or_none(Find(element, NS_AAS \o "category"))
                     o1 == IF category # NoText THEN [o EXCEPT !.category = category] ELSE o
                 IN  Then(_failsafe_construct(Find(element, NS_AAS \o "description"),
                                              "_construct_lang_string_set", FALSE),
                          LAMBDA description :
                              Ok(IF description # None THEN [o1 EXCEPT !.description = description]
                                 ELSE o1))
        identifiable(o) ==
            IF ~IsInstance(o, "Identifiable") THEN Ok(o)
            ELSE LET id_short == _get_text_or_none(Find(element, NS_AAS \o "idShort"))
                     o1 == IF id_short # NoText THEN [o EXCEPT !.id_short = id_short] ELSE o
                 IN  Then(_failsafe_construct(Find(element, NS_AAS \o "administration"),
                                              "_construct_administrative_information", failsafe_),
                          LAMBDA administration :
                              Ok(IF administration # None
                                 THEN [o1 EXCEPT !.administration = administration] ELSE o1))
        has_semantics(o) ==
            IF ~IsInstance(o, "HasSemantics") THEN Ok(o)
            ELSE Then(_failsafe_construct(Find(element, NS_AAS \o "semanticId"),
                                          "_construct_reference", failsafe_),
                      LAMBDA semantic_id :
                          Ok(IF semantic_id # None THEN [o EXCEPT !.semantic_id = semantic_id]
                             ELSE o))
        qualifiable(o) ==
            IF ~IsInstance(o, "Qualifiable") THEN Ok(o)
            ELSE LET qualifiers == Find(element, NS_AAS \o "qualifiers")
                 IN  IF qualifiers = None THEN Ok(o)
                     ELSE Then(_failsafe_construct_multiple(qualifiers.children,
                                                            "_construct_constraint", failsafe_),
                               LAMBDA constraints :
                                   Ok([o EXCEPT !.qualifier = @ \cup Range(constraints)]))
    IN  Then(referable(obj), LAMBDA o1 :
        Then(identifiable(o1), LAMBDA o2 :
        Then(has_semantics(o2), LAMBDA o3 : qualifiable(o3))))

_amend_abstract_attributes(obj, element, failsafe_) ==
    LET referable(o) ==
            IF ~IsInstance(o, "Referable") THEN Ok(o)
            ELSE LET category == _get_text_or_none(Find(element, NS_AAS \o "category"))
                     o1 == IF category # NoText THEN [o EXCEPT !.category = category] ELSE o
                 IN  Then(_failsafe_construct(Find(element, NS_AAS \o "description"),
                                              "_construct_lang_string_set", failsafe_),
                          LAMBDA description :
                              Ok(IF description # None THEN [o1 EXCEPT !.description = description]
                                 ELSE o1))
        identifiable(o) ==
            IF ~IsInstance(o, "Identifiable") THEN Ok(o)
            ELSE LET id_short == _get_text_or_none(Find(element, NS_AAS \o "idShort"))
                     o1 == IF id_short # NoText THEN [o EXCEPT !.id_short = id_short] ELSE o
                 IN  Then(_failsafe_construct(Find(element, NS_AAS \o "administration"),
                                              "_construct_administrative_information", failsafe_),
                          LAMBDA administration :
                              Ok(IF administration # None
                                 THEN [o1 EXCEPT !.administration = administration] ELSE o1))
        has_semantics(o) ==
            IF ~IsInstance(o, "HasSemantics") THEN Ok(o)
            ELSE Then(_failsafe_construct(Find(element, NS_AAS \o "semanticId"),
                                          "_construct_reference", failsafe_),
                      LAMBDA semantic_id :
                          Ok(IF semantic_id # None THEN [o EXCEPT !.semantic_id = semantic_id]
                             ELSE o))
        qualifiable(o) ==
            IF ~IsInstance(o, "Qualifiable") THEN Ok(o)
            ELSE LET qualifiers == Find(element, NS_AAS \o "qualifiers")
                 IN  IF qualifiers = None THEN Ok(o)
                     ELSE Then(_failsafe_construct_multiple(qualifiers.children,
                                                            "_construct_constraint", failsafe_),
                               LAMBDA constraints :
                                   Ok([o EXCEPT !.qualifier = @ \cup Range(constraints)]))
    IN  Then(referable(obj), LAMBDA o1 :
        Then(identifiable(o1), LAMBDA o2 :
        Then(has_semantics(o2), LAMBDA o3 : qualifiable(o3))))

\* variant: a kind child that cannot be mapped gives no kind, as if it were not there
_get_modeling_kind_kwarg_or_default(element) ==
    LET kind == Find(element, NS_AAS \o "kind")
    IN  IF kind # None /\ kind.text # NoText /\ kind.text \in DOMAIN MODELING_KIND_INVERSE
        THEN Ok([kind |-> MODELING_KIND_INVERSE[kind.text]])
        ELSE Ok(<<>>)

_get_modeling_kind_kwarg(element) ==
    LET kind == Find(element, NS_AAS \o "kind")
    IN  IF kind # None
        THEN Then(_get_text_mandatory_mapped(kind, MODELING_KIND_INVERSE),
                  LAMBDA k : Ok([kind |-> k]))
        ELSE Ok(<<>>)

-----------------------------------------------------------------------------
(* constructor functions: keys, references and the small value classes *)

_construct_key(element, _failsafe) ==
    Then(EvalArgs(<<_get_attrib_mandatory_mapped(element, "type", KEY_ELEMENTS_INVERSE),
                    Then(_get_attrib_mandatory(element, "local"),
                         LAMBDA local : Ok(Lower(local) = "true")),
                    _get_text_mandatory(element),
                    _get_attrib_mandatory_mapped(element, "idType", KEY_TYPES_INVERSE)>>),
         LAMBDA a : Ok(Key(a[1], a[2], a[3], a[4])))

\* variant: the keys are constructed with failsafe=False whatever the mode
_construct_key_tuple_strict(element, failsafe_) ==
    Then(_get_child_mandatory(element, NS_AAS \o "keys"),
         LAMBDA keys : _failsafe_construct_multiple(FindAll(keys, NS_AAS \o "key"),
                                                    "_construct_key", FALSE))

\* val is the tuple of keys
_construct_key_tuple(element, failsafe_) ==
    Then(_get_child_mandatory(element, NS_AAS \o "keys"),
         LAMBDA keys : _failsafe_construct_multiple(FindAll(keys, NS_AAS \o "key"),
                                                    "_construct_key", failsafe_))

_construct_reference(element, failsafe_) ==
    Then(_construct_key_tuple(element, failsafe_), LAMBDA keys : Ok(Reference(keys)))

\* sep.join(parts)
RECURSIVE JoinSep(_, _)
JoinSep(sep, parts) ==
    IF parts = <<>> THEN ""
    ELSE IF Len(parts) = 1 THEN parts[1]
    ELSE parts[1] \o sep \o JoinSep(sep, Tail(parts))

\* Enum.name of a member written Class.NAME
EnumName(member) == Split(member, ".")[2]

\* variant: a last key of another type is a failure
_construct_aas_reference_checked(element, failsafe_, type_) ==
    Then(_construct_key_tuple(element, failsafe_),
         LAMBDA keys :
            IF Len(keys) # 0
               /\ ~(keys[Len(keys)].type \in DOMAIN KEY_ELEMENTS_CLASSES_INVERSE
                    /\ IsSubclass(KEY_ELEMENTS_CLASSES_INVERSE[keys[Len(keys)].type], type_))
            THEN Raise("ValueError", "Type of last key does not match reference type " \o type_)
            ELSE Ok(AASReference(keys, type_)))

_construct_aas_reference(element, failsafe_, type_) ==
    Then(_construct_key_tuple(element, failsafe_),
         LAMBDA keys :
            LET last == keys[Len(keys)]
                cls == IF last.type \in DOMAIN KEY_ELEMENTS_CLASSES_INVERSE
                       THEN KEY_ELEMENTS_CLASSES_INVERSE[last.type] ELSE "NoneType"
            IN  IF Len(keys) # 0 /\ ~IsSubclass(cls, type_)
                THEN [exc |-> NoExc, val |-> AASReference(keys, type_),
                      log |-> <<LogLine("WARNING",
                                  "Type " \o EnumName(last.type) \o " of last key of reference to "
                                  \o JoinSep(" / ", [i \in 1..Len(keys) |-> keys[i].value])
                                  \o " does not match reference type " \o type_, element)>>]
                ELSE Ok(AASReference(keys, type_)))

_construct_submodel_reference(element, failsafe_) ==
    _construct_aas_reference(element, failsafe_, "Submodel")

_construct_asset_reference(element, failsafe_) ==
    _construct_aas_reference(element, failsafe_, "Asset")

_construct_asset_administration_shell_reference(element, failsafe_) ==
    _construct_aas_reference(element, failsafe_, "AssetAdministrationShell")

_construct_referable_reference(element, failsafe_) ==
    _construct_aas_reference(element, failsafe_, "Referable")

_construct_concept_description_reference(element, failsafe_) ==
    _construct_aas_reference(element, failsafe_, "ConceptDescription")

_construct_data_element_reference(element, failsafe_) ==
    _construct_aas_reference(element, failsafe_, "DataElement")

_construct_administrative_information(element, _failsafe) ==
    Ok(AdministrativeInformation(_get_text_or_none(Find(element, NS_AAS \o "version")),
                                 _get_text_or_none(Find(element, NS_AAS \o "revision"))))

\* the loop of _construct_lang_string_set over the langString children left;
\* an assignment lss[key] = value evaluates the value first, then the key
RECURSIVE LangStrings(_, _)
LangStrings(lang_strings, lss) ==
    IF lang_strings = <<>> THEN Ok(lss)
    ELSE Then(EvalArgs(<<_get_text_mandatory(Head(lang_strings)),
                         _get_attrib_mandatory(Head(lang_strings), "lang")>>),
              LAMBDA a : LangStrings(Tail(lang_strings), (a[2] :> a[1]) @@ lss))

_construct_lang_string_set(element, _failsafe) ==
    LangStrings(FindAll(element, NS_IEC \o "langString"), <<>>)

_construct_qualifier(element, failsafe_) ==
    Then(EvalArgs(<<_child_text_mandatory(element, NS_AAS \o "type"),
                    _child_text_mandatory_mapped(element, NS_AAS \o "valueType", XSD_TYPE_CLASSES)>>),
         LAMBDA a :
            LET qualifier == Qualifier(a[1], a[2])
                value == _get_text_or_none(Find(element, NS_AAS \o "value"))
            IN  Then(IF value # NoText THEN from_xsd(value, qualifier.value_type) ELSE Ok(None),
                     LAMBDA v :
                Then(_failsafe_construct(Find(element, NS_AAS \o "valueId"),
                                         "_construct_reference", failsafe_),
                     LAMBDA value_id :
                        _amend_abstract_attributes(
                            [qualifier EXCEPT !.value = IF value # NoText THEN v ELSE @,
                                              !.value_id = IF value_id # None THEN value_id ELSE @],
                            element, failsafe_))))

_construct_formula(element, failsafe_) ==
    LET depends_on_refs == Find(element, NS_AAS \o "dependsOnRefs")
    IN  IF depends_on_refs # None
        THEN Then(_failsafe_construct_multiple(FindAll(depends_on_refs, NS_AAS \o "reference"),
                                               "_construct_reference", failsafe_),
                  LAMBDA refs : Ok([Formula EXCEPT !.depends_on = @ \cup Range(refs)]))
        ELSE Ok(Formula)

_construct_identifier(element, _failsafe) ==
    Then(EvalArgs(<<_get_text_mandatory(element),
                    _get_attrib_mandatory_mapped(element, "idType", IDENTIFIER_TYPES_INVERSE)>>),
         LAMBDA a : Ok(Identifier(a[1], a[2])))

_construct_security(_element, _failsafe) == Ok(Security)

_construct_view(element, failsafe_) ==
    Then(_child_text_mandatory(element, NS_AAS \o "idShort"),
         LAMBDA id_short :
            LET view == View(id_short)
                contained_elements == Find(element, NS_AAS \o "containedElements")
            IN  Then(IF contained_elements # None
                     THEN _failsafe_construct_multiple(
                              FindAll(contained_elements, NS_AAS \o "containedElementRef"),
                              "_construct_referable_reference", failsafe_)
                     ELSE Ok(<<>>),
                     LAMBDA refs :
                        _amend_abstract_attributes(
                            [view EXCEPT !.contained_element = @ \cup Range(refs)],
                            element, failsafe_)))

_construct_concept_dictionary(element, failsafe_) ==
    Then(_child_text_mandatory(element, NS_AAS \o "idShort"),
         LAMBDA id_short :
            LET concept_dictionary == ConceptDictionary(id_short)
                concept_description == Find(element, NS_AAS \o "conceptDescriptionRefs")
            IN  Then(IF concept_description # None
                     THEN _failsafe_construct_multiple(
                              FindAll(concept_description, NS_AAS \o "conceptDescriptionRef"),
                              "_construct_concept_description_reference", failsafe_)
                     ELSE Ok(<<>>),
                     LAMBDA refs :
                        _amend_abstract_attributes(
                            [concept_dictionary EXCEPT !.concept_description = @ \cup Range(refs)],
                            element, failsafe_)))

\* the dispatch table of _construct_submodel_element
submodel_elements ==
    (NS_AAS \o "annotatedRelationshipElement" :> "_construct_annotated_relationship_element")
    @@ (NS_AAS \o "basicEvent" :> "_construct_basic_event")
    @@ (NS_AAS \o "blob" :> "_construct_blob")
    @@ (NS_AAS \o "capability" :> "_construct_capability")
    @@ (NS_AAS \o "entity" :> "_construct_entity")
    @@ (NS_AAS \o "file" :> "_construct_file")
    @@ (NS_AAS \o "multiLanguageProperty" :> "_construct_multi_language_property")
    @@ (NS_AAS \o "operation" :> "_construct_operation")
    @@ (NS_AAS \o "property" :> "_construct_property")
    @@ (NS_AAS \o "range" :> "_construct_range")
    @@ (NS_AAS \o "referenceElement" :> "_construct_reference_element")
    @@ (NS_AAS \o "relationshipElement" :> "_construct_relationship_element")
    @@ (NS_AAS \o "submodelElementCollection" :> "_construct_submodel_element_collection")

\* variant: a tag that is not in the table raises a TypeError
_construct_submodel_element_type_error(element, failsafe_) ==
    IF element.tag \notin DOMAIN submodel_elements
    THEN Raise("TypeError", "XML element " \o element.tag \o " is not a valid submodel element!")
    ELSE Call(submodel_elements[element.tag], element, failsafe_)

_construct_submodel_element(element, failsafe_) ==
    IF element.tag \notin DOMAIN submodel_elements
    THEN Raise("KeyError", "XML element " \o element.tag \o " is not a valid submodel element!")
    ELSE Call(submodel_elements[element.tag], element, failsafe_)

\* the dispatch table of _construct_constraint
constraints ==
    (NS_AAS \o "formula" :> "_construct_formula")
    @@ (NS_AAS \o "qualifier" :> "_construct_qualifier")

_construct_constraint(element, failsafe_) ==
    IF element.tag \notin DOMAIN constraints
    THEN Raise("KeyError", "XML element " \o element.tag \o " is not a valid constraint!")
    ELSE Call(constraints[element.tag], element, failsafe_)

\* variant: no check for a value element without children
_construct_operation_variable_unchecked(element, _failsafe) ==
    Then(_get_child_mandatory(element, NS_AAS \o "value"),
         LAMBDA value :
            IF Len(value.children) = 0 THEN Ok(OperationVariable(None))
            ELSE Then(_failsafe_construct_mandatory(value.children[1],
                                                    "_construct_submodel_element"),
                      LAMBDA se : Ok(OperationVariable(se))))

\* variant: the last element of the value is used
_construct_operation_variable_last(element, _failsafe) ==
    Then(_get_child_mandatory(element, NS_AAS \o "value"),
         LAMBDA value :
            IF Len(value.children) = 0
            THEN Raise("KeyError", "Value of operation variable has no submodel element!")
            ELSE WithLog(IF Len(value.children) > 1
                         THEN <<LogLine("WARNING", "Value of operation variable has more than one "
                                                   \o "submodel element, using the first one...", element)>>
                         ELSE <<>>,
                         Then(_failsafe_construct_mandatory(value.children[Len(value.children)],
                                                            "_construct_submodel_element"),
                              LAMBDA se : Ok(OperationVariable(se)))))

_construct_operation_variable(element, _failsafe) ==
    Then(_get_child_mandatory(element, NS_AAS \o "value"),
         LAMBDA value :
            IF Len(value.children) = 0
            THEN Raise("KeyError", "Value of operation variable has no submodel element!")
            ELSE WithLog(IF Len(value.children) > 1
                         THEN <<LogLine("WARNING", "Value of operation variable has more than one "
                                                   \o "submodel element, using the first one...", element)>>
                         ELSE <<>>,
                         Then(_failsafe_construct_mandatory(value.children[1],
                                                            "_construct_submodel_element"),
                              LAMBDA se : Ok(OperationVariable(se)))))

-----------------------------------------------------------------------------
(* constructor functions: the submodel elements *)

_construct_annotated_relationship_element(element, failsafe_) ==
    Then(EvalArgs(<<_child_text_mandatory(element, NS_AAS \o "idShort"),
                    _child_construct_mandatory(element, NS_AAS \o "first",
                                               "_construct_referable_reference"),
                    _child_construct_mandatory(element, NS_AAS \o "second",
                                               "_construct_referable_reference"),
                    _get_modeling_kind_kwarg(element)>>),
         LAMBDA a :
            LET annotated_relationship_element ==
                    [first |-> a[2], second |-> a[3], annotation |-> {}]
                    @@ SubmodelElement("AnnotatedRelationshipElement", a[1], a[4])
            IN  Then(_get_child_mandatory(element, NS_AAS \o "annotations"),
                     LAMBDA annotations :
                Then(_failsafe_construct_multiple(FindAll(annotations, NS_AAS \o "reference"),
                                                  "_construct_data_element_reference", failsafe_),
                     LAMBDA refs :
                        _amend_abstract_attributes(
                            [annotated_relationship_element EXCEPT !.annotation = @ \cup Range(refs)],
                            element, failsafe_))))

_construct_basic_event(element, failsafe_) ==
    Then(EvalArgs(<<_child_text_mandatory(element, NS_AAS \o "idShort"),
                    _child_construct_mandatory(element, NS_AAS \o "observed",
                                               "_construct_referable_reference"),
                    _get_modeling_kind_kwarg(element)>>),
         LAMBDA a :
            _amend_abstract_attributes(
                [observed |-> a[2]] @@ SubmodelElement("BasicEvent", a[1], a[3]),
                element, failsafe_))

_construct_blob(element, failsafe_) ==
    Then(EvalArgs(<<_child_text_mandatory(element, NS_AAS \o "idShort"),
                    _child_text_mandatory(element, NS_AAS \o "mimeType"),
                    _get_modeling_kind_kwarg(element)>>),
         LAMBDA a :
            LET blob == [mime_type |-> a[2], value |-> None] @@ SubmodelElement("Blob", a[1], a[3])
                value == Find(element, NS_AAS \o "value")
            IN  Then(IF value # None
                     THEN Then(_get_text_mandatory(value), LAMBDA text : b64decode(text))
                     ELSE Ok(None),
                     LAMBDA decoded :
                        _amend_abstract_attributes(
                            [blob EXCEPT !.value = IF value # None THEN decoded ELSE @],
                            element, failsafe_)))

_construct_capability(element, failsafe_) ==
    Then(EvalArgs(<<_child_text_mandatory(element, NS_AAS \o "idShort"),
                    _get_modeling_kind_kwarg(element)>>),
         LAMBDA a :
            _amend_abstract_attributes(SubmodelElement("Capability", a[1], a[2]),
                                       element, failsafe_))

_construct_entity(element, failsafe_) ==
    Then(EvalArgs(<<_child_text_mandatory(element, NS_AAS \o "idShort"),
                    _child_text_mandatory_mapped(element, NS_AAS \o "entityType",
                                                 ENTITY_TYPES_INVERSE),
                    _get_modeling_kind_kwarg(element)>>),
         LAMBDA a :
            LET entity == [entity_type |-> a[2], asset |-> None, statement |-> NamespaceSet(<<>>)]
                          @@ SubmodelElement("Entity", a[1], a[3])
            IN  Then(_failsafe_construct(Find(element, NS_AAS \o "assetRef"),
                                         "_construct_asset_reference", failsafe_),
                     LAMBDA asset_ref :
                Then(_get_child_mandatory(element, NS_AAS \o "statements"),
                     LAMBDA statements :
                Then(_failsafe_construct_multiple(statements.children,
                                                  "_construct_submodel_element", failsafe_),
                     LAMBDA stmts :
                        _amend_abstract_attributes(
                            [entity EXCEPT !.asset = IF asset_ref # None THEN asset_ref ELSE @,
                                           !.statement = NamespaceSet(stmts)],
                            element, failsafe_)))))

\* variant: the second argument is the text of the mimeType child
_construct_file_mime_type(element, failsafe_) ==
    Then(EvalArgs(<<_child_text_mandatory(element, NS_AAS \o "idShort"),
                    _child_text_mandatory(element, NS_AAS \o "mimeType"),
                    _get_modeling_kind_kwarg(element)>>),
         LAMBDA a :
            LET file == [mime_type |-> a[2], value |-> None] @@ SubmodelElement("File", a[1], a[3])
                value == Find(element, NS_AAS \o "value")
            IN  Then(IF value # None
                     THEN Then(_get_text_mandatory(value), LAMBDA text : Ok(PyValue("str", text)))
                     ELSE Ok(None),
                     LAMBDA text :
                        _amend_abstract_attributes(
                            [file EXCEPT !.value = IF value # None THEN text ELSE @],
                            element, failsafe_)))

_construct_file(element, failsafe_) ==
    Then(EvalArgs(<<_child_text_mandatory(element, NS_AAS \o "idShort"),
                    _child_text_mandatory(element, NS_AAS \o "idShort"),
                    _get_modeling_kind_kwarg(element)>>),
         LAMBDA a :
            LET file == [mime_type |-> a[2], value |-> None] @@ SubmodelElement("File", a[1], a[3])
                value == Find(element, NS_AAS \o "value")
            IN  Then(IF value # None
                     THEN Then(_get_text_mandatory(value), LAMBDA text : Ok(PyValue("str", text)))
                     ELSE Ok(None),
                     LAMBDA text :
                        _amend_abstract_attributes(
                            [file EXCEPT !.value = IF value # None THEN text ELSE @],
                            element, failsafe_)))

_construct_multi_language_property(element, failsafe_) ==
    Then(EvalArgs(<<_child_text_mandatory(element, NS_AAS \o "idShort"),
                    _get_modeling_kind_kwarg(element)>>),
         LAMBDA a :
            LET multi_language_property ==
                    [value |-> None, value_id |-> None]
                    @@ SubmodelElement("MultiLanguageProperty", a[1], a[2])
            IN  Then(_failsafe_construct(Find(element, NS_AAS \o "value"),
                                         "_construct_lang_string_set", failsafe_),
                     LAMBDA value :
                Then(_failsafe_construct(Find(element, NS_AAS \o "valueId"),
                                         "_construct_reference", failsafe_),
                     LAMBDA value_id :
                        _amend_abstract_attributes(
                            [multi_language_property EXCEPT
                                !.value = IF value # None THEN value ELSE @,
                                !.value_id = IF value_id # None THEN value_id ELSE @],
                            element, failsafe_))))

\* one of the three variable lists of _construct_operation
OperationVariables(element, tag, failsafe_) ==
    LET variable == Find(element, tag)
    IN  IF variable # None
        THEN _failsafe_construct_multiple(FindAll(variable, NS_AAS \o "operationVariable"),
                                          "_construct_operation_variable", failsafe_)
        ELSE Ok(<<>>)

_construct_operation(element, failsafe_) ==
    Then(EvalArgs(<<_child_text_mandatory(element, NS_AAS \o "idShort"),
                    _get_modeling_kind_kwarg(element)>>),
         LAMBDA a :
            LET operation == [input_variable |-> <<>>, output_variable |-> <<>>,
                              in_output_variable |-> <<>>]
                             @@ SubmodelElement("Operation", a[1], a[2])
            IN  Then(OperationVariables(element, NS_AAS \o "inoutputVariable", failsafe_),
                     LAMBDA in_output :
                Then(OperationVariables(element, NS_AAS \o "inputVariable", failsafe_),
                     LAMBDA input :
                Then(OperationVariables(element, NS_AAS \o "outputVariable", failsafe_),
                     LAMBDA output :
                        _amend_abstract_attributes(
                            [operation EXCEPT !.in_output_variable = in_output,
                                              !.input_variable = input,
                                              !.output_variable = output],
                            element, failsafe_)))))

_construct_property(element, failsafe_) ==
    Then(EvalArgs(<<_child_text_mandatory(element, NS_AAS \o "idShort"),
                    _child_text_mandatory_mapped(element, NS_AAS \o "valueType", XSD_TYPE_CLASSES),
                    _get_modeling_kind_kwarg(element)>>),
         LAMBDA a :
            LET property == [value_type |-> a[2], value |-> None, value_id |-> None]
                            @@ SubmodelElement("Property", a[1], a[3])
                value == _get_text_or_none(Find(element, NS_AAS \o "value"))
            IN  Then(IF value # NoText THEN from_xsd(value, property.value_type) ELSE Ok(None),
                     LAMBDA v :
                Then(_failsafe_construct(Find(element, NS_AAS \o "valueId"),
                                         "_construct_reference", failsafe_),
                     LAMBDA value_id :
                        _amend_abstract_attributes(
                            [property EXCEPT !.value = IF value # NoText THEN v ELSE @,
                                             !.value_id = IF value_id # None THEN value_id ELSE @],
                            element, failsafe_))))

_construct_range(element, failsafe_) ==
    Then(EvalArgs(<<_child_text_mandatory(element, NS_AAS \o "idShort"),
                    _child_text_mandatory_mapped(element, NS_AAS \o "valueType", XSD_TYPE_CLASSES),
                    _get_modeling_kind_kwarg(element)>>),
         LAMBDA a :
            LET range == [value_type |-> a[2], min |-> None, max |-> None]
                         @@ SubmodelElement("Range", a[1], a[3])
                max == _get_text_or_none(Find(element, NS_AAS \o "max"))
                min == _get_text_or_none(Find(element, NS_AAS \o "min"))
            IN  Then(IF max # NoText THEN from_xsd(max, range.value_type) ELSE Ok(None),
                     LAMBDA max_value :
                Then(IF min # NoText THEN from_xsd(min, range.value_type) ELSE Ok(None),
                     LAMBDA min_value :
                        _amend_abstract_attributes(
                            [range EXCEPT !.max = IF max # NoText THEN max_value ELSE @,
                                          !.min = IF min # NoText THEN min_value ELSE @],
                            element, failsafe_))))

_construct_reference_element(element, failsafe_) ==
    Then(EvalArgs(<<_child_text_mandatory(element, NS_AAS \o "idShort"),
                    _get_modeling_kind_kwarg(element)>>),
         LAMBDA a :
            LET reference_element == [value |-> None] @@ SubmodelElement("ReferenceElement", a[1], a[2])
            IN  Then(_failsafe_construct(Find(element, NS_AAS \o "value"),
                                         "_construct_referable_reference", failsafe_),
                     LAMBDA value :
                        _amend_abstract_attributes(
                            [reference_element EXCEPT !.value = IF value # None THEN value ELSE @],
                            element, failsafe_)))

_construct_relationship_element(element, failsafe_) ==
    Then(EvalArgs(<<_child_text_mandatory(element, NS_AAS \o "idShort"),
                    _child_construct_mandatory(element, NS_AAS \o "first",
                                               "_construct_referable_reference"),
                    _child_construct_mandatory(element, NS_AAS \o "second",
                                               "_construct_referable_reference"),
                    _get_modeling_kind_kwarg(element)>>),
         LAMBDA a :
            _amend_abstract_attributes(
                [first |-> a[2], second |-> a[3]]
                @@ SubmodelElement("RelationshipElement", a[1], a[4]),
                element, failsafe_))

_construct_submodel_element_collection(element, failsafe_) ==
    Then(_child_text_mandatory(element, NS_AAS \o "ordered"),
         LAMBDA ordered_text :
            LET ordered == Lower(ordered_text) = "true"
                collection_type == IF ordered THEN "SubmodelElementCollectionOrdered"
                                   ELSE "SubmodelElementCollectionUnordered"
            IN  Then(EvalArgs(<<_child_text_mandatory(element, NS_AAS \o "idShort"),
                                _get_modeling_kind_kwarg(element)>>),
                     LAMBDA a :
                        LET collection == [value |-> NamespaceSet(<<>>)]
                                          @@ SubmodelElement(collection_type, a[1], a[2])
                        IN  Then(_get_child_mandatory(element, NS_AAS \o "value"),
                                 LAMBDA value :
                            Then(_failsafe_construct_multiple(value.children,
                                                              "_construct_submodel_element",
                                                              failsafe_),
                                 LAMBDA ses :
                                    _amend_abstract_attributes(
                                        [collection EXCEPT !.value = NamespaceSet(ses)],
                                        element, failsafe_)))))

-----------------------------------------------------------------------------
(* constructor functions: the four identifiable classes *)

\* an optional list element of the shell and the references constructed from it
ReferenceList(element, list_tag, tag, constructor, failsafe_) ==
    LET list_ == Find(element, list_tag)
    IN  IF list_ # None
        THEN _failsafe_construct_multiple(FindAll(list_, tag), constructor, failsafe_)
        ELSE Ok(<<>>)

_construct_asset_administration_shell(element, failsafe_) ==
    Then(EvalArgs(<<_child_construct_mandatory(element, NS_AAS \o "assetRef",
                                               "_construct_asset_reference"),
                    _child_construct_mandatory(element, NS_AAS \o "identification",
                                               "_construct_identifier")>>),
         LAMBDA a :
            LET aas == AssetAdministrationShell(a[1], a[2])
            IN  Then(_failsafe_construct(Find(element, NS_ABAC \o "security"),
                                         "_construct_security", failsafe_),
                     LAMBDA security :
                Then(ReferenceList(element, NS_AAS \o "submodelRefs", NS_AAS \o "submodelRef",
                                   "_construct_submodel_reference", failsafe_),
                     LAMBDA submodels :
                Then(ReferenceList(element, NS_AAS \o "views", NS_AAS \o "view",
                                   "_construct_view", failsafe_),
                     LAMBDA views :
                Then(ReferenceList(element, NS_AAS \o "conceptDictionaries",
                                   NS_AAS \o "conceptDictionary",
                                   "_construct_concept_dictionary", failsafe_),
                     LAMBDA concept_dictionaries :
                Then(_failsafe_construct(Find(element, NS_AAS \o "derivedFrom"),
                                         "_construct_asset_administration_shell_reference",
                                         failsafe_),
                     LAMBDA derived_from :
                        _amend_abstract_attributes(
                            [aas EXCEPT
                                !.security = IF security # None THEN security ELSE @,
                                !.submodel = @ \cup Range(submodels),
                                !.view = @ \cup Range(views),
                                !.concept_dictionary = @ \cup Range(concept_dictionaries),
                                !.derived_from = IF derived_from # None THEN derived_from ELSE @],
                            element, failsafe_)))))))

_construct_asset(element, failsafe_) ==
    Then(EvalArgs(<<_child_text_mandatory_mapped(element, NS_AAS \o "kind", ASSET_KIND_INVERSE),
                    _child_construct_mandatory(element, NS_AAS \o "identification",
                                               "_construct_identifier")>>),
         LAMBDA a :
            LET asset == Asset(a[1], a[2])
            IN  Then(_failsafe_construct(Find(element, NS_AAS \o "assetIdentificationModelRef"),
                                         "_construct_submodel_reference", failsafe_),
                     LAMBDA asset_identification_model :
                Then(_failsafe_construct(Find(element, NS_AAS \o "billOfMaterialRef"),
                                         "_construct_submodel_reference", failsafe_),
                     LAMBDA bill_of_material :
                        _amend_abstract_attributes(
                            [asset EXCEPT
                                !.asset_identification_model =
                                    IF asset_identification_model # None
                                    THEN asset_identification_model ELSE @,
                                !.bill_of_material =
                                    IF bill_of_material # None THEN bill_of_material ELSE @],
                            element, failsafe_))))

_construct_submodel(element, failsafe_) ==
    Then(EvalArgs(<<_child_construct_mandatory(element, NS_AAS \o "identification",
                                               "_construct_identifier"),
                    _get_modeling_kind_kwarg(element)>>),
         LAMBDA a :
            LET submodel == Submodel(a[1], a[2])
            IN  Then(_get_child_mandatory(element, NS_AAS \o "submodelElements"),
                     LAMBDA submodel_elements_ :
                Then(_failsafe_construct_multiple(submodel_elements_.children,
                                                  "_construct_submodel_element", failsafe_),
                     LAMBDA constructed :
                        _amend_abstract_attributes(
                            [submodel EXCEPT !.submodel_element = NamespaceSet(constructed)],
                            element, failsafe_))))

_construct_concept_description(element, failsafe_) ==
    Then(_child_construct_mandatory(element, NS_AAS \o "identification", "_construct_identifier"),
         LAMBDA identification :
            LET cd == ConceptDescription(identification)
            IN  Then(_failsafe_construct_multiple(FindAll(element, NS_AAS \o "isCaseOf"),
                                                  "_construct_reference", failsafe_),
                     LAMBDA refs :
                        _amend_abstract_attributes([cd EXCEPT !.is_case_of = @ \cup Range(refs)],
                                                   element, failsafe_)))

Call(constructor, element, failsafe_) ==
    CASE constructor = "_construct_key" -> _construct_key(element, failsafe_)
      [] constructor = "_construct_reference" -> _construct_reference(element, failsafe_)
      [] constructor = "_construct_submodel_reference" ->
            _construct_submodel_reference(element, failsafe_)
      [] constructor = "_construct_asset_reference" ->
            _construct_asset_reference(element, failsafe_)
      [] constructor = "_construct_asset_administration_shell_reference" ->
            _construct_asset_administration_shell_reference(element, failsafe_)
      [] constructor = "_construct_referable_reference" ->
            _construct_referable_reference(element, failsafe_)
      [] constructor = "_construct_concept_description_reference" ->
            _construct_concept_description_reference(element, failsafe_)
      [] constructor = "_construct_data_element_reference" ->
            _construct_data_element_reference(element, failsafe_)
      [] constructor = "_construct_administrative_information" ->
            _construct_administrative_information(element, failsafe_)
      [] constructor = "_construct_lang_string_set" ->
            _construct_lang_string_set(element, failsafe_)
      [] constructor = "_construct_qualifier" -> _construct_qualifier(element, failsafe_)
      [] constructor = "_construct_formula" -> _construct_formula(element, failsafe_)
      [] constructor = "_construct_identifier" -> _construct_identifier(element, failsafe_)
      [] constructor = "_construct_security" -> _construct_security(element, failsafe_)
      [] constructor = "_construct_view" -> _construct_view(element, failsafe_)
      [] constructor = "_construct_concept_dictionary" ->
            _construct_concept_dictionary(element, failsafe_)
      [] constructor = "_construct_submodel_element" ->
            _construct_submodel_element(element, failsafe_)
      [] constructor = "_construct_constraint" -> _construct_constraint(element, failsafe_)
      [] constructor = "_construct_operation_variable" ->
            _construct_operation_variable(element, failsafe_)
      [] constructor = "_construct_annotated_relationship_element" ->
            _construct_annotated_relationship_element(element, failsafe_)
      [] constructor = "_construct_basic_event" -> _construct_basic_event(element, failsafe_)
      [] constructor = "_construct_blob" -> _construct_blob(element, failsafe_)
      [] constructor = "_construct_capability" -> _construct_capability(element, failsafe_)
      [] constructor = "_construct_entity" -> _construct_entity(element, failsafe_)
      [] constructor = "_construct_file" -> _construct_file(element, failsafe_)
      [] constructor = "_construct_multi_language_property" ->
            _construct_multi_language_property(element, failsafe_)
      [] constructor = "_construct_operation" -> _construct_operation(element, failsafe_)
      [] constructor = "_construct_property" -> _construct_property(element, failsafe_)
      [] constructor = "_construct_range" -> _construct_range(element, failsafe_)
      [] constructor = "_construct_reference_element" ->
            _construct_reference_element(element, failsafe_)
      [] constructor = "_construct_relationship_element" ->
            _construct_relationship_element(element, failsafe_)
      [] constructor = "_construct_submodel_element_collection" ->
            _construct_submodel_element_collection(element, failsafe_)
      [] constructor = "_construct_asset_administration_shell" ->
            _construct_asset_administration_shell(element, failsafe_)
      [] constructor = "_construct_asset" -> _construct_asset(element, failsafe_)
      [] constructor = "_construct_submodel" -> _construct_submodel(element, failsafe_)
      [] constructor = "_construct_concept_description" ->
            _construct_concept_description(element, failsafe_)

-----------------------------------------------------------------------------
(* read_xml_aas_file *)

element_constructors ==
    (NS_AAS \o "assetAdministrationShell" :> "_construct_asset_administration_shell")
    @@ (NS_AAS \o "asset" :> "_construct_asset")
    @@ (NS_AAS \o "submodel" :> "_construct_submodel")
    @@ (NS_AAS \o "conceptDescription" :> "_construct_concept_description")

\* DictObjectStore: the identifications of the stored objects
Identifications(store) == {store[i].identification : i \in 1..Len(store)}

\* DictObjectStore.add(x): a KeyError if an object with the same identification
\* is stored already
DictObjectStore_add(store, x) ==
    IF x.identification \in Identifications(store)
    THEN Raise("KeyError", "Identifiable object with same identification " \o x.identification.id
                           \o " is already stored in this store")
    ELSE Ok(Append(store, x))

\* the list group the outer loop is at
list_ == doc.children[gi]

\* element_tag = list_.tag[:-1]
list_element_tag(l) == SubSeq(l.tag, 1, Len(l.tag) - 1)

\* variant: only the plural ending is looked at
UnexpectedListByEnding(l) == CharAt(l.tag, Len(l.tag)) # "s"

\* the condition of the `if` that turns a list group down
UnexpectedList(l) ==
    CharAt(l.tag, Len(l.tag)) # "s" \/ list_element_tag(l) \notin DOMAIN element_constructors

\* variant: every child of the list group is taken
AllChildren(l) == l.children

\* list_.findall(element_tag)
GroupElements(l) == FindAll(l, list_element_tag(l))

\* the result of constructing the element the inner loop is at
Parsed ==
    _failsafe_construct(GroupElements(list_)[ei + 1],
                        element_constructors[list_element_tag(list_)], failsafe)

\* `for list_ in root` takes a group whose tag is not a known list: not failsafe
UnexpectedListRaise ==
    /\ pc = "scan" /\ gi < Len(doc.children)
    /\ UnexpectedList(doc.children[gi + 1])
    /\ ~failsafe
    /\ pc' = "raised"
    /\ exc' = Raise("TypeError", "Unexpected top-level list " \o doc.children[gi + 1].tag \o "!").exc
    /\ gi' = gi + 1
    /\ UNCHANGED <<doc, failsafe, ei, ret, yielded, log, strictRun>>
    /\ UNCHANGED <<callVars, genVars, schemaVars>>

\* ... failsafe: a warning, and `continue`
UnexpectedListSkip ==
    /\ pc = "scan" /\ gi < Len(doc.children)
    /\ UnexpectedList(doc.children[gi + 1])
    /\ failsafe
    /\ log' = Append(log, LogLine("WARNING", "Unexpected top-level list "
                                             \o doc.children[gi + 1].tag \o "!",
                                  doc.children[gi + 1]))
    /\ gi' = gi + 1
    /\ UNCHANGED <<doc, failsafe, pc, ei, ret, yielded, exc, strictRun>>
    /\ UNCHANGED <<callVars, genVars, schemaVars>>

\* ... a known list: the generator over its elements is created
EnterListGroup ==
    /\ pc = "scan" /\ gi < Len(doc.children)
    /\ ~UnexpectedList(doc.children[gi + 1])
    /\ pc' = "group"
    /\ gi' = gi + 1
    /\ ei' = 0
    /\ yielded' = <<>>
    /\ UNCHANGED <<doc, failsafe, ret, log, exc, strictRun>>
    /\ UNCHANGED <<callVars, genVars, schemaVars>>

\* the generator is asked for its next value and the constructor raises through it
ConstructRaise ==
    /\ pc = "group" /\ ei < Len(GroupElements(list_))
    /\ \E parsed \in {Parsed} :
        /\ Raised(parsed)
        /\ pc' = "raised"
        /\ exc' = parsed.exc
        /\ log' = log \o parsed.log
        /\ ei' = ei + 1
        /\ UNCHANGED <<doc, failsafe, gi, ret, yielded, strictRun>>
    /\ UNCHANGED <<callVars, genVars, schemaVars>>

\* ... the construction failed and was logged: the generator goes on to the next
ConstructSkip ==
    /\ pc = "group" /\ ei < Len(GroupElements(list_))
    /\ \E parsed \in {Parsed} :
        /\ ~Raised(parsed) /\ parsed.val = None
        /\ log' = log \o parsed.log
        /\ ei' = ei + 1
        /\ UNCHANGED <<doc, failsafe, pc, gi, ret, yielded, exc, strictRun>>
    /\ UNCHANGED <<callVars, genVars, schemaVars>>

\* ... the generator yields an object and the loop body adds it to the store
AddElement ==
    /\ pc = "group" /\ ei < Len(GroupElements(list_))
    /\ \E parsed \in {Parsed} :
        /\ ~Raised(parsed) /\ parsed.val # None
        /\ ~(IsInstance(parsed.val, "Identifiable")
             /\ Raised(DictObjectStore_add(ret, parsed.val)))
        /\ ret' = IF IsInstance(parsed.val, "Identifiable")
                  THEN DictObjectStore_add(ret, parsed.val).val ELSE ret
        /\ yielded' = Append(yielded, parsed.val)
        /\ log' = log \o parsed.log
        /\ ei' = ei + 1
        /\ UNCHANGED <<doc, failsafe, pc, gi, exc, strictRun>>
    /\ UNCHANGED <<callVars, genVars, schemaVars>>

\* ... the generator yields an object and ret.add() raises
AddRaise ==
    /\ pc = "group" /\ ei < Len(GroupElements(list_))
    /\ \E parsed \in {Parsed} :
        /\ ~Raised(parsed) /\ parsed.val # None
        /\ IsInstance(parsed.val, "Identifiable")
        /\ Raised(DictObjectStore_add(ret, parsed.val))
        /\ pc' = "raised"
        /\ exc' = DictObjectStore_add(ret, parsed.val).exc
        /\ yielded' = Append(yielded, parsed.val)
        /\ log' = log \o parsed.log
        /\ ei' = ei + 1
        /\ UNCHANGED <<doc, failsafe, gi, ret, strictRun>>
    /\ UNCHANGED <<callVars, genVars, schemaVars>>

\* the generator is exhausted: back to `for list_ in root`
EndListGroup ==
    /\ pc = "group" /\ ei = Len(GroupElements(list_))
    /\ pc' = "scan"
    /\ UNCHANGED <<doc, failsafe, gi, ei, ret, yielded, log, exc, strictRun>>
    /\ UNCHANGED <<callVars, genVars, schemaVars>>

\* `return ret`
Return ==
    /\ pc = "scan" /\ gi = Len(doc.children)
    /\ pc' = "returned"
    /\ UNCHANGED <<doc, failsafe, gi, ei, ret, yielded, log, exc, strictRun>>
    /\ UNCHANGED <<callVars, genVars, schemaVars>>

\* the caller, done with read_xml_aas_file(file, failsafe=False), reads the same
\* file with failsafe=True
ReadFailsafe ==
    /\ pc \in {"returned", "raised"} /\ ~failsafe
    /\ strictRun' = [pc |-> pc, ret |-> ret, exc |-> exc, log |-> log, gi |-> gi, ei |-> ei]
    /\ failsafe' = TRUE
    /\ pc' = "scan"
    /\ gi' = 0
    /\ ei' = 0
    /\ ret' = <<>>
    /\ yielded' = <<>>
    /\ log' = <<>>
    /\ exc' = NoExc
    /\ UNCHANGED doc
    /\ UNCHANGED <<callVars, genVars, schemaVars>>

-----------------------------------------------------------------------------
(* the files read: XML trees built from the elements below *)

\* an element of the AAS namespace with text and no children
Txt(tag, text) == Element(NS_AAS \o tag, <<>>, text, <<>>)

\* an element of the AAS namespace with children and no text
Node(tag, children) == Element(NS_AAS \o tag, <<>>, NoText, children)

KeyEl(type, id_type, value) ==
    Element(NS_AAS \o "key", [type |-> type, local |-> "false", idType |-> id_type], value, <<>>)

RefEl(tag, keys) == Node(tag, <<Node("keys", keys)>>)

IdentificationEl(id, id_type) ==
    Element(NS_AAS \o "identification", [idType |-> id_type], id, <<>>)

PropertyEl(id_short, value_type, value) ==
    Node("property", <<Txt("idShort", id_short), Txt("valueType", value_type), Txt("value", value)>>)

SubmodelEl(id, elements) ==
    Node("submodel", <<IdentificationEl(id, "IRI"), Node("submodelElements", elements)>>)

\* a key whose type is no member of KeyElements
BadTypeKey == KeyEl("NotAKeyElement", "IRI", "urn:example:x")

\* a key without the idType attribute
NoIdTypeKey ==
    Element(NS_AAS \o "key", [type |-> "Submodel", local |-> "true"], "urn:example:sm:1", <<>>)

AssetKey == KeyEl("Asset", "IRI", "urn:example:asset:1")

ShellOk ==
    Node("assetAdministrationShell",
         <<RefEl("assetRef", <<AssetKey>>),
           IdentificationEl("urn:example:aas:1", "IRI"),
           Txt("idShort", "Shell"),
           Node("submodelRefs", <<RefEl("submodelRef", <<KeyEl("Submodel", "IRI", "urn:example:sm:1")>>)>>)>>)

\* the identification lacks its idType attribute
ShellNoIdType ==
    Node("assetAdministrationShell",
         <<RefEl("assetRef", <<AssetKey>>),
           Element(NS_AAS \o "identification", <<>>, "urn:example:aas:3", <<>>)>>)

\* two optional references with one bad key each; derivedFrom comes first in the
\* file, submodelRefs is looked up first by the constructor
ShellBadRefs ==
    Node("assetAdministrationShell",
         <<RefEl("derivedFrom", <<BadTypeKey>>),
           Node("submodelRefs", <<RefEl("submodelRef", <<NoIdTypeKey>>)>>),
           IdentificationEl("urn:example:aas:2", "IRI"),
           RefEl("assetRef", <<AssetKey>>)>>)

AssetOk ==
    Node("asset", <<Txt("kind", "Instance"), IdentificationEl("urn:example:asset:1", "IRI")>>)

AssetBadKind ==
    Node("asset", <<Txt("kind", "NotAKind"), IdentificationEl("urn:example:asset:2", "IRI")>>)

\* an asset with the Identifier of ShellOk
AssetSameIdAsShell ==
    Node("asset", <<Txt("kind", "Type"), IdentificationEl("urn:example:aas:1", "IRI")>>)

TemperatureOk == PropertyEl("Temperature", "double", "23.5")

TemperatureBadType == PropertyEl("Temperature", "notAType", "23.5")

SubmodelOk == SubmodelEl("urn:example:sm:1", <<TemperatureOk>>)

SubmodelBadProperty == SubmodelEl("urn:example:sm:1", <<TemperatureBadType>>)

CapabilityOk == Node("capability", <<Txt("idShort", "Cap")>>)

\* one invalid valueType between two valid siblings
SubmodelSiblings ==
    SubmodelEl("urn:example:sm:2",
               <<PropertyEl("Count", "int", "-12"), TemperatureBadType, CapabilityOk>>)

OperationVariableEl(elements) == Node("operationVariable", <<Node("value", elements)>>)

\* an operation with three in/out variables: one element, none, two
OperationEl ==
    Node("operation",
         <<Txt("idShort", "Op"),
           Node("inoutputVariable",
                <<OperationVariableEl(<<TemperatureOk>>),
                  OperationVariableEl(<<>>),
                  OperationVariableEl(<<CapabilityOk, TemperatureOk>>)>>)>>)

SubmodelOperation == SubmodelEl("urn:example:sm:3", <<OperationEl>>)

BlobEl(id_short, value) ==
    Node("blob", <<Txt("idShort", id_short), Txt("mimeType", "text/plain"), Txt("value", value)>>)

\* a collection holding a valid property, an element with an unknown tag, a blob
\* whose value is not base64, a property whose value is no int and a valid blob
CollectionEl ==
    Node("submodelElementCollection",
         <<Txt("ordered", "True"),
           Txt("idShort", "Coll"),
           Node("value", <<TemperatureOk,
                           Node("gadget", <<Txt("idShort", "G")>>),
                           BlobEl("Bad", "QQ"),
                           PropertyEl("Count", "int", "12a"),
                           BlobEl("Good", "QUI=")>>)>>)

SubmodelNested == SubmodelEl("urn:example:sm:4", <<CollectionEl, CapabilityOk>>)

\* no submodelElements child
SubmodelNoElements == Node("submodel", <<IdentificationEl("urn:example:sm:5", "IRI")>>)

\* a submodel whose only defect is a blob value that is not base64
SubmodelBadBlob == SubmodelEl("urn:example:sm:6", <<BlobEl("Bad", "QQ")>>)

ConceptDescriptionOk ==
    Node("conceptDescription",
         <<IdentificationEl("urn:example:cd:1", "IRI"),
           RefEl("isCaseOf", <<KeyEl("GlobalReference", "IRI", "urn:example:ref")>>)>>)

ConceptDescriptionBadKey ==
    Node("conceptDescription",
         <<IdentificationEl("urn:example:cd:2", "IRI"), RefEl("isCaseOf", <<BadTypeKey>>)>>)

\* the list groups a file is made of
ListGroups ==
    {Node("assetAdministrationShells", <<ShellOk>>),
     Node("assetAdministrationShells", <<ShellBadRefs, ShellNoIdType>>),
     Node("assets", <<AssetOk>>),
     Node("assets", <<AssetBadKind, AssetSameIdAsShell>>),
     Node("submodels", <<SubmodelOk>>),
     Node("submodels", <<SubmodelBadProperty>>),
     Node("submodels", <<SubmodelSiblings>>),
     Node("submodels", <<SubmodelOperation>>),
     Node("submodels", <<SubmodelNested, SubmodelNoElements>>),
     Node("submodels", <<SubmodelBadBlob>>),
     Node("submodels", <<AssetOk, SubmodelOk, Node("gadget", <<>>)>>),
     Node("conceptDescriptions", <<ConceptDescriptionOk, ConceptDescriptionBadKey>>),
     Node("submodel", <<SubmodelOk>>),
     Node("gadgets", <<AssetOk>>)}

\* the largest number of list groups in a file
MaxGroups == 2

RECURSIVE SeqsUpTo(_, _)
SeqsUpTo(S, n) ==
    IF n = 0 THEN {<<>>}
    ELSE LET shorter == SeqsUpTo(S, n - 1)
         IN  shorter \cup {Append(q, x) : q \in shorter, x \in S}

Docs == {Node("aasenv", groups) : groups \in SeqsUpTo(ListGroups, MaxGroups)}

\* no single call is made
CallIdle == invocation = None /\ outcome = None

\* no generator exists
GenIdle ==
    /\ _namespace = "" /\ provider = {} /\ _counter_cache = <<>>
    /\ proposal = NoText /\ counter = 0
    /\ genpc = "idle" /\ issued = None /\ calls = <<>>

\* check_schema is not called
SchemaIdle == steps = <<>> /\ schemapc = "idle" /\ added = 0

\* read_xml_aas_file is not called
ReadIdle ==
    /\ doc = None /\ failsafe = FALSE /\ pc = "idle" /\ gi = 0 /\ ei = 0 /\ ret = <<>>
    /\ yielded = <<>> /\ log = <<>> /\ exc = NoExc /\ strictRun = None

Init ==
    /\ doc \in Docs
    /\ failsafe = FALSE
    /\ pc = "scan"
    /\ gi = 0
    /\ ei = 0
    /\ ret = <<>>
    /\ yielded = <<>>
    /\ log = <<>>
    /\ exc = NoExc
    /\ strictRun = None
    /\ CallIdle /\ GenIdle /\ SchemaIdle

Next ==
    \/ UnexpectedListRaise
    \/ UnexpectedListSkip
    \/ EnterListGroup
    \/ ConstructRaise
    \/ ConstructSkip
    \/ AddElement
    \/ AddRaise
    \/ EndListGroup
    \/ Return
    \/ ReadFailsafe

Spec == Init /\ [][Next]_vars

-----------------------------------------------------------------------------
(* single calls: one function of the module applied to one element *)

\* the typed reference constructors and the type_ each hands to
\* _construct_aas_reference
ReferenceType ==
    ("_construct_submodel_reference" :> "Submodel")
    @@ ("_construct_asset_reference" :> "Asset")
    @@ ("_construct_asset_administration_shell_reference" :> "AssetAdministrationShell")
    @@ ("_construct_referable_reference" :> "Referable")
    @@ ("_construct_concept_description_reference" :> "ConceptDescription")
    @@ ("_construct_data_element_reference" :> "DataElement")

\* constructor(element, failsafe), called directly
CallConstructor ==
    /\ invocation # None /\ outcome = None
    /\ invocation.fn = "constructor"
    /\ outcome' = Call(invocation.constructor, invocation.element, invocation.failsafe)
    /\ UNCHANGED <<invocation, readVars, genVars, schemaVars>>

\* _failsafe_construct(element, constructor, failsafe)
CallFailsafeConstruct ==
    /\ invocation # None /\ outcome = None
    /\ invocation.fn = "_failsafe_construct"
    /\ outcome' = _failsafe_construct(invocation.element, invocation.constructor,
                                      invocation.failsafe)
    /\ UNCHANGED <<invocation, readVars, genVars, schemaVars>>

\* _failsafe_construct_multiple(elements, constructor, failsafe), consumed until it
\* ends or raises; invocation.element is the parent of the elements
CallFailsafeConstructMultiple ==
    /\ invocation # None /\ outcome = None
    /\ invocation.fn = "_failsafe_construct_multiple"
    /\ outcome' = _failsafe_construct_multiple(invocation.element.children,
                                               invocation.constructor, invocation.failsafe)
    /\ UNCHANGED <<invocation, readVars, genVars, schemaVars>>

Invoke(fn, constructor, element, failsafe_) ==
    [fn |-> fn, constructor |-> constructor, element |-> element, failsafe |-> failsafe_]

\* keys of the kinds a reference may end with
SubmodelKey == KeyEl("Submodel", "IRI", "urn:example:sm:1")
PropertyKey == KeyEl("Property", "IdShort", "Temperature")
GlobalKey == KeyEl("GlobalReference", "IRI", "urn:example:ref")

\* the key lists of the references constructed: none, one key, a path, a key whose
\* type names no model class, keys that fail to construct
KeyLists ==
    {<<>>, <<AssetKey>>, <<SubmodelKey>>, <<SubmodelKey, PropertyKey>>, <<GlobalKey>>,
     <<BadTypeKey>>, <<AssetKey, BadTypeKey>>, <<NoIdTypeKey, SubmodelKey>>}

\* the reference elements constructed: one per key list, and one without a keys child
ReferenceElements == {RefEl("reference", keys) : keys \in KeyLists} \cup {Node("reference", <<>>)}

\* every typed reference constructor on every reference element, both ways
ReferenceCalls ==
    {Invoke("constructor", c, e, f) :
        c \in DOMAIN ReferenceType, e \in ReferenceElements, f \in BOOLEAN}

\* the constructors the module hands to _failsafe_construct and
\* _failsafe_construct_multiple
Constructors ==
    DOMAIN ReferenceType
    \cup {"_construct_key", "_construct_reference", "_construct_administrative_information",
          "_construct_lang_string_set", "_construct_identifier", "_construct_security",
          "_construct_view", "_construct_concept_dictionary", "_construct_submodel_element",
          "_construct_constraint", "_construct_operation_variable",
          "_construct_asset_administration_shell", "_construct_asset", "_construct_submodel",
          "_construct_concept_description"}

\* _failsafe_construct on the result of a find() that found nothing
AbsentCalls == {Invoke("_failsafe_construct", c, None, f) : c \in Constructors, f \in BOOLEAN}

\* a collection around one element
Around(inner) ==
    Node("submodelElementCollection",
         <<Txt("ordered", "False"), Txt("idShort", "Around"), Node("value", <<inner>>)>>)

\* the element inside d collections
RECURSIVE Nest(_, _)
Nest(d, inner) == IF d = 0 THEN inner ELSE Around(Nest(d - 1, inner))

\* the deepest nesting of collections constructed
MaxDepth == 2

\* a property whose semanticId holds a key without idType
PropertyNoIdTypeKey ==
    Node("property", <<Txt("idShort", "Speed"), Txt("valueType", "int"),
                       RefEl("semanticId", <<NoIdTypeKey>>)>>)

\* a property without idShort
PropertyNoIdShort == Node("property", <<Txt("valueType", "int")>>)

BadValueType == Txt("valueType", "notAType")

\* an operation whose only variable holds a property with an invalid valueType
OperationBadVariable ==
    Node("operation",
         <<Txt("idShort", "Op"),
           Node("inputVariable", <<OperationVariableEl(<<TemperatureBadType>>)>>)>>)

IdentificationNoIdType == Element(NS_AAS \o "identification", <<>>, "urn:example:sm:7", <<>>)

\* a submodel whose identification lacks the idType attribute
SubmodelNoIdType ==
    Node("submodel", <<IdentificationNoIdType, Node("submodelElements", <<CapabilityOk>>)>>)

\* a tree with one defect: the element at which a helper function raises, and what
\* that helper raises when it is called on the element
Fault(root, at, leaf) == [root |-> root, at |-> at, leaf |-> leaf.exc]

\* the defects inside a submodel element, each with the element it is in
ElementFaults ==
    {[element |-> PropertyNoIdTypeKey, at |-> NoIdTypeKey,
      leaf |-> _get_attrib_mandatory_mapped(NoIdTypeKey, "idType", KEY_TYPES_INVERSE)],
     [element |-> TemperatureBadType, at |-> BadValueType,
      leaf |-> _get_text_mandatory_mapped(BadValueType, XSD_TYPE_CLASSES)],
     [element |-> PropertyNoIdShort, at |-> PropertyNoIdShort,
      leaf |-> _get_child_mandatory(PropertyNoIdShort, NS_AAS \o "idShort")],
     [element |-> OperationBadVariable, at |-> BadValueType,
      leaf |-> _get_text_mandatory_mapped(BadValueType, XSD_TYPE_CLASSES)]}

\* submodels with one defect each: a faulty element inside 0..MaxDepth collections,
\* and a faulty identification
Faults ==
    {Fault(SubmodelEl("urn:example:sm:7", <<Nest(d, f.element)>>), f.at, f.leaf) :
        d \in 0..MaxDepth, f \in ElementFaults}
    \cup {Fault(SubmodelNoIdType, IdentificationNoIdType,
                _get_attrib_mandatory_mapped(IdentificationNoIdType, "idType",
                                             IDENTIFIER_TYPES_INVERSE))}

\* _failsafe_construct on every submodel with a defect, both ways
FaultCalls ==
    {Invoke("_failsafe_construct", "_construct_submodel", f.root, fs) :
        f \in Faults, fs \in BOOLEAN}

\* an operation that is constructed with a warning: its variable holds two elements
OperationLoud ==
    Node("operation",
         <<Txt("idShort", "Loud"),
           Node("outputVariable", <<OperationVariableEl(<<CapabilityOk, TemperatureOk>>)>>)>>)

\* the longest list of elements handed to _failsafe_construct_multiple
MaxNodes == 3

\* lists of submodel elements: valid ones, one that fails, one that logs a warning
NodeLists == SeqsUpTo({CapabilityOk, TemperatureOk, TemperatureBadType, OperationLoud}, MaxNodes)

\* _failsafe_construct_multiple on every list, both ways
MultipleCalls ==
    {Invoke("_failsafe_construct_multiple", "_construct_submodel_element", Node("value", nodes), fs) :
        nodes \in NodeLists, fs \in BOOLEAN}

LangStringEl(attrib, text) == Element(NS_IEC \o "langString", attrib, text, <<>>)

DescriptionOk == Node("description", <<LangStringEl([lang |-> "en"], "a submodel")>>)

\* a langString without the lang attribute
DescriptionBad == Node("description", <<LangStringEl(<<>>, "a submodel")>>)

AdministrationOk == Node("administration", <<Txt("version", "1"), Txt("revision", "2")>>)

SemanticIdOk == RefEl("semanticId", <<GlobalKey>>)

\* a semanticId without the keys child
SemanticIdBad == Node("semanticId", <<>>)

QualifierOk == Node("qualifier", <<Txt("type", "limit"), Txt("valueType", "int"), Txt("value", "5")>>)

\* a qualifier with an invalid valueType
QualifierBad == Node("qualifier", <<Txt("type", "limit"), BadValueType>>)

FormulaOk == Node("formula", <<>>)

\* the qualifiers children: valid constraints, one that fails to construct, one with
\* a tag that names no constraint
QualifierLists ==
    {<<QualifierOk>>, <<QualifierBad>>, <<QualifierOk, QualifierBad, FormulaOk>>,
     <<Node("gadget", <<>>), FormulaOk>>}

\* each optional child of the amendment: in none, one or each of its kinds
OptionalChildren ==
    {d \o a \o s \o q :
        d \in {<<>>, <<DescriptionOk>>, <<DescriptionBad>>},
        a \in {<<>>, <<AdministrationOk>>},
        s \in {<<>>, <<SemanticIdOk>>, <<SemanticIdBad>>},
        q \in {<<>>} \cup {<<Node("qualifiers", qs)>> : qs \in QualifierLists}}

\* a submodel, which has all four traits, with the optional children
AmendedSubmodels ==
    {Node("submodel", <<IdentificationEl("urn:example:sm:8", "IRI"),
                        Node("submodelElements", <<CapabilityOk>>)>> \o optional) :
        optional \in OptionalChildren}

AmendCalls ==
    {Invoke("_failsafe_construct", "_construct_submodel", e, fs) :
        e \in AmendedSubmodels, fs \in BOOLEAN}

\* children whose tags name no submodel element
Gadget == Node("gadget", <<Txt("idShort", "G")>>)
Widget == Node("widget", <<>>)

\* lists of children: two valid submodel elements, each at most once, among
\* children with unknown tags
ChildLists ==
    {cs \in SeqsUpTo({CapabilityOk, TemperatureOk, Gadget, Widget}, MaxNodes) :
        \A i, j \in 1..Len(cs) : (i # j /\ cs[i] = cs[j]) => cs[i] \in {Gadget, Widget}}

EntityEl(statements) ==
    Node("entity", <<Txt("idShort", "Ent"), Txt("entityType", "CoManagedEntity"),
                     Node("statements", statements)>>)

CollectionOf(children) ==
    Node("submodelElementCollection",
         <<Txt("ordered", "True"), Txt("idShort", "Coll"), Node("value", children)>>)

\* the three containers of submodel elements, each with every list of children
ContainerCalls ==
    {Invoke("_failsafe_construct", "_construct_submodel_element", CollectionOf(cs), fs) :
        cs \in ChildLists, fs \in BOOLEAN}
    \cup {Invoke("_failsafe_construct", "_construct_submodel_element", EntityEl(cs), fs) :
            cs \in ChildLists, fs \in BOOLEAN}
    \cup {Invoke("_failsafe_construct", "_construct_submodel", SubmodelEl("urn:example:sm:9", cs), fs) :
            cs \in ChildLists, fs \in BOOLEAN}

AssetNoIdType == Node("asset", <<Txt("kind", "Instance"), IdentificationNoIdType>>)

ConceptDescriptionNoIdType == Node("conceptDescription", <<IdentificationNoIdType>>)

\* a shell whose assetRef lacks the keys child
ShellNoAssetKeys ==
    Node("assetAdministrationShell",
         <<Node("assetRef", <<>>), IdentificationEl("urn:example:aas:4", "IRI")>>)

\* the four identifiable elements with a defect in a child that is constructed by
\* _child_construct_mandatory, each with its constructor
MandatoryFaultElements ==
    {[element |-> ShellNoIdType, constructor |-> "_construct_asset_administration_shell"],
     [element |-> ShellNoAssetKeys, constructor |-> "_construct_asset_administration_shell"],
     [element |-> AssetNoIdType, constructor |-> "_construct_asset"],
     [element |-> SubmodelNoIdType, constructor |-> "_construct_submodel"],
     [element |-> ConceptDescriptionNoIdType, constructor |-> "_construct_concept_description"]}

MandatoryCalls ==
    {Invoke("_failsafe_construct", m.constructor, m.element, fs) :
        m \in MandatoryFaultElements, fs \in BOOLEAN}

\* _construct_operation_variable, called directly, on an operationVariable with each
\* list of elements in its value
VariableCalls ==
    {Invoke("constructor", "_construct_operation_variable", OperationVariableEl(nodes), fs) :
        nodes \in NodeLists, fs \in BOOLEAN}

\* _get_attrib_mandatory_mapped(element, attrib, dct)
CallGetAttribMandatoryMapped ==
    /\ invocation # None /\ outcome = None
    /\ invocation.fn = "_get_attrib_mandatory_mapped"
    /\ outcome' = _get_attrib_mandatory_mapped(invocation.element, invocation.attrib,
                                               invocation.dct)
    /\ UNCHANGED <<invocation, readVars, genVars, schemaVars>>

\* _get_text_mandatory_mapped(element, dct)
CallGetTextMandatoryMapped ==
    /\ invocation # None /\ outcome = None
    /\ invocation.fn = "_get_text_mandatory_mapped"
    /\ outcome' = _get_text_mandatory_mapped(invocation.element, invocation.dct)
    /\ UNCHANGED <<invocation, readVars, genVars, schemaVars>>

\* attributes and texts: none, keys of some table, keys of none
Attribs ==
    {<<>>, [idType |-> "IRI"], [idType |-> "Instance"], [idType |-> "iri"], [idType |-> ""],
     [type |-> "IRI"], [type |-> "IRI", idType |-> "Custom"]}
Texts == {NoText, "IRI", "Instance", "iri", "", " IRI"}

\* the tables handed to the two functions
Tables == {IDENTIFIER_TYPES_INVERSE, KEY_TYPES_INVERSE, MODELING_KIND_INVERSE}

MappedCalls ==
    {[fn |-> "_get_attrib_mandatory_mapped", element |-> Element(NS_AAS \o "key", a, t, <<>>),
      attrib |-> n, dct |-> d] :
        a \in Attribs, t \in {NoText, "IRI"}, n \in {"idType", "type"}, d \in Tables}
    \cup {[fn |-> "_get_text_mandatory_mapped", element |-> Element(NS_AAS \o "kind", a, t, <<>>),
           dct |-> d] :
            a \in {<<>>, [idType |-> "IRI"]}, t \in Texts, d \in Tables}

\* _failsafe_construct_mandatory(element, constructor)
CallFailsafeConstructMandatory ==
    /\ invocation # None /\ outcome = None
    /\ invocation.fn = "_failsafe_construct_mandatory"
    /\ outcome' = _failsafe_construct_mandatory(invocation.element, invocation.constructor)
    /\ UNCHANGED <<invocation, readVars, genVars, schemaVars>>

\* every constructor function of the module
AllConstructors ==
    Constructors
    \cup {"_construct_qualifier", "_construct_formula"}
    \cup {submodel_elements[t] : t \in DOMAIN submodel_elements}

\* elements of every kind, with and without defects
PresentElements ==
    {ShellOk, ShellNoIdType, ShellBadRefs, AssetOk, AssetBadKind, SubmodelOk, SubmodelBadProperty,
     SubmodelNested, SubmodelOperation, ConceptDescriptionNoIdType,
     TemperatureOk, TemperatureBadType, CapabilityOk, OperationEl, OperationLoud, CollectionEl,
     EntityEl(<<CapabilityOk, Gadget>>), BlobEl("Bad", "QQ"), Gadget,
     OperationVariableEl(<<>>), OperationVariableEl(<<TemperatureOk>>),
     OperationVariableEl(<<TemperatureBadType>>),
     AssetKey, BadTypeKey, NoIdTypeKey, RefEl("reference", <<AssetKey>>),
     RefEl("reference", <<NoIdTypeKey>>), Node("reference", <<>>),
     IdentificationEl("urn:example:aas:1", "IRI"), IdentificationNoIdType,
     DescriptionOk, DescriptionBad, AdministrationOk, QualifierOk, QualifierBad, FormulaOk}

\* _failsafe_construct_mandatory with every constructor on every element
MandatoryFnCalls ==
    {[fn |-> "_failsafe_construct_mandatory", constructor |-> c, element |-> e] :
        c \in AllConstructors, e \in PresentElements}

\* key lists with one key that fails to construct
OneBadKeyLists ==
    {<<bad>> : bad \in {BadTypeKey, NoIdTypeKey}}
    \cup {<<SubmodelKey, bad>> : bad \in {BadTypeKey, NoIdTypeKey}}
    \cup {<<bad, PropertyKey>> : bad \in {BadTypeKey, NoIdTypeKey}}

PropertyWithValueId(keys) ==
    Node("property", <<Txt("idShort", "Linked"), Txt("valueType", "int"), RefEl("valueId", keys)>>)

\* elements with a reference that holds the keys: mandatory is whether the reference,
\* or an element around it, is constructed by _failsafe_construct_mandatory; ref is
\* the field of the optional reference
Carrier(element, constructor, mandatory, ref, keys) ==
    [element |-> element, constructor |-> constructor, mandatory |-> mandatory, ref |-> ref,
     keys |-> keys]

Carriers ==
    {Carrier(Node("assetAdministrationShell",
                  <<RefEl("assetRef", keys), IdentificationEl("urn:example:aas:5", "IRI")>>),
             "_construct_asset_administration_shell", TRUE, "", keys) : keys \in OneBadKeyLists}
    \cup {Carrier(Node("assetAdministrationShell",
                       <<RefEl("assetRef", <<AssetKey>>),
                         IdentificationEl("urn:example:aas:5", "IRI"),
                         RefEl("derivedFrom", keys)>>),
                  "_construct_asset_administration_shell", FALSE, "derived_from", keys) :
            keys \in OneBadKeyLists}
    \cup {Carrier(Node("relationshipElement",
                       <<Txt("idShort", "Rel"), RefEl("first", keys),
                         RefEl("second", <<SubmodelKey, PropertyKey>>)>>),
                  "_construct_submodel_element", TRUE, "", keys) : keys \in OneBadKeyLists}
    \cup {Carrier(Node("relationshipElement",
                       <<Txt("idShort", "Rel"), RefEl("first", <<SubmodelKey, PropertyKey>>),
                         RefEl("second", keys)>>),
                  "_construct_submodel_element", TRUE, "", keys) : keys \in OneBadKeyLists}
    \cup {Carrier(OperationVariableEl(<<PropertyWithValueId(keys)>>),
                  "_construct_operation_variable", TRUE, "", keys) : keys \in OneBadKeyLists}
    \cup {Carrier(PropertyWithValueId(keys),
                  "_construct_submodel_element", FALSE, "value_id", keys) :
            keys \in OneBadKeyLists}

CarrierCalls ==
    {Invoke("_failsafe_construct", c.constructor, c.element, fs) : c \in Carriers, fs \in BOOLEAN}

\* a child of each kind: not there, with text, without text
OptionalTxt(tag, text) == {<<>>, <<Txt(tag, text)>>, <<Txt(tag, NoText)>>}

\* file elements with and without idShort, mimeType and value
FileElements ==
    {Node("file", i \o m \o v) :
        i \in OptionalTxt("idShort", "Doc"),
        m \in OptionalTxt("mimeType", "application/pdf"),
        v \in OptionalTxt("value", "/doc.pdf")}

FileCalls ==
    {Invoke("constructor", "_construct_file", e, fs) : e \in FileElements, fs \in BOOLEAN}

\* _failsafe_construct(element, constructor, failsafe) for a constructor that raises
\* invocation.raised: the except clause
CallFailsafeConstructRaising ==
    /\ invocation # None /\ outcome = None
    /\ invocation.fn = "_failsafe_construct: except"
    /\ outcome' = FailsafeExcept(invocation.raised, invocation.element, invocation.constructor,
                                 invocation.failsafe)
    /\ UNCHANGED <<invocation, readVars, genVars, schemaVars>>

\* the classes of the exceptions raised: those caught by the wrapper, binascii.Error
\* among them, and two that are not
ExceptionTypes == {"KeyError", "ValueError", "Error", "TypeError", "AttributeError"}

\* what the constructor raises: an exception, or one raised from another by a wrapper
\* below
RaisedByConstructor ==
    {Raise(t, "no such thing") : t \in ExceptionTypes}
    \cup {RaiseFrom(t, "while converting XML element with tag " \o NS_AAS \o "key to type Key",
                    Raise(t, "no such thing").exc) : t \in ExceptionTypes}

RaisingCalls ==
    {[fn |-> "_failsafe_construct: except", raised |-> r, element |-> e, constructor |-> c,
      failsafe |-> fs] :
        r \in RaisedByConstructor, e \in {TemperatureOk, RefEl("semanticId", <<AssetKey>>)},
        c \in {"_construct_submodel_element", "_construct_reference"}, fs \in BOOLEAN}

\* the kind child: not there, valid, without text, with a text that is no kind
KindChildren ==
    {<<>>, <<Txt("kind", "Template")>>, <<Txt("kind", "Instance")>>, <<Txt("kind", NoText)>>,
     <<Txt("kind", "Neither")>>}

\* submodel elements and a submodel with each kind child
KindElements ==
    {[element |-> Node("property", <<Txt("idShort", "Kinded"), Txt("valueType", "int")>> \o k),
      constructor |-> "_construct_submodel_element"] : k \in KindChildren}
    \cup {[element |-> Node("capability", k \o <<Txt("idShort", "Kinded")>>),
           constructor |-> "_construct_submodel_element"] : k \in KindChildren}
    \cup {[element |-> Node("submodel", <<IdentificationEl("urn:example:sm:10", "IRI")>> \o k
                                        \o <<Node("submodelElements", <<CapabilityOk>>)>>),
           constructor |-> "_construct_submodel"] : k \in KindChildren}

KindCalls ==
    {Invoke("_failsafe_construct", e.constructor, e.element, fs) :
        e \in KindElements, fs \in BOOLEAN}

Invocations == ReferenceCalls \cup AbsentCalls \cup FaultCalls \cup MultipleCalls
               \cup AmendCalls \cup ContainerCalls
               \cup MandatoryCalls \cup VariableCalls \cup MappedCalls
               \cup MandatoryFnCalls \cup CarrierCalls \cup FileCalls
               \cup RaisingCalls \cup KindCalls

CallInit ==
    /\ invocation \in Invocations
    /\ outcome = None
    /\ ReadIdle /\ GenIdle /\ SchemaIdle

CallNext ==
    \/ CallConstructor
    \/ CallFailsafeConstruct
    \/ CallFailsafeConstructMultiple
    \/ CallGetAttribMandatoryMapped
    \/ CallGetTextMandatoryMapped
    \/ CallFailsafeConstructMandatory
    \/ CallFailsafeConstructRaising

CallSpec == CallInit /\ [][CallNext]_vars

-----------------------------------------------------------------------------
(* aas.util.identification: NamespaceIRIGenerator *)

\* _iri_segment_quote_table: the reserved characters and what replaces them (all
\* but the grave accent, which no string here holds)
_iri_segment_quote_table ==
    (":" :> "%3A") @@ ("[" :> "%5B") @@ ("]" :> "%5D") @@ ("@" :> "%40")
    @@ ("!" :> "%21") @@ ("$" :> "%24") @@ ("'" :> "%27") @@ ("(" :> "%28") @@ (")" :> "%29")
    @@ ("*" :> "%2A") @@ ("+" :> "%2B") @@ ("," :> "%2C") @@ (";" :> "%3B")
    @@ (" " :> "%20") @@ ("\"" :> "%22") @@ ("<" :> "%3C") @@ (">" :> "%3E") @@ ("\\" :> "%5C")
    @@ ("^" :> "%5E") @@ ("{" :> "%7B") @@ ("|" :> "%7C") @@ ("}" :> "%7D")

\* the ASCII control characters the table removes, as far as a string here holds them
ControlCharacters == {"\t", "\n", "\r"}

\* _quote_iri_segment(segment): segment.translate(_iri_segment_quote_table)
RECURSIVE _quote_iri_segment(_)
_quote_iri_segment(segment) ==
    IF segment = "" THEN ""
    ELSE (IF CharAt(segment, 1) \in ControlCharacters THEN ""
          ELSE IF CharAt(segment, 1) \in DOMAIN _iri_segment_quote_table
               THEN _iri_segment_quote_table[CharAt(segment, 1)]
               ELSE CharAt(segment, 1))
         \o _quote_iri_segment(SubSeq(segment, 2, Len(segment)))

\* str(n) of a natural number
RECURSIVE Decimal(_)
Decimal(n) == IF n < 10 THEN CharAt(digits, n + 1) ELSE Decimal(n \div 10) \o CharAt(digits, (n % 10) + 1)

\* "{:04d}".format(n): at least four digits, zeros to the left
Format04d(n) ==
    LET d == Decimal(n) IN IF Len(d) >= 4 THEN d ELSE SubSeq("0000", 1, 4 - Len(d)) \o d

\* variant: the namespace is left out of the IRI
IriWithoutNamespace(namespace, proposal_, counter_) ==
    IF counter_ # 0 \/ proposal_ = ""
    THEN proposal_ \o (IF proposal_ # "" THEN "_" ELSE "") \o Format04d(counter_)
    ELSE proposal_

\* the iri that generate_id tries for a counter
Iri(namespace, proposal_, counter_) ==
    IF counter_ # 0 \/ proposal_ = ""
    THEN namespace \o proposal_ \o (IF proposal_ # "" THEN "_" ELSE "") \o Format04d(counter_)
    ELSE namespace \o proposal_

\* provider.get_identifiable(identifier): a KeyError if the provider holds no
\* object of this Identifier
get_identifiable(provider_, identifier) ==
    IF identifier \in provider_ THEN Ok(identifier)
    ELSE Raise("KeyError", "Identifier not found")

\* self._counter_cache.get(proposal, 0)
CachedCounter(cache, proposal_) == IF proposal_ \in DOMAIN cache THEN cache[proposal_] ELSE 0

\* the namespaces of the generators constructed
Namespaces == {"http://acplt.org/", "urn:x#"}

\* the proposals handed to generate_id (NoText: none)
Proposals == {NoText, "", "a", "a b", "a\n", "a_0001"}

\* the largest number of Identifiers the provider is given
MaxIds == 3
\* the number of generate_id calls of one run
MaxCalls == 4

\* generate_id is called: lines 90 to 93
GenerateId ==
    /\ genpc = "ready"
    /\ Len(calls) < MaxCalls
    /\ \E p \in Proposals :
          /\ proposal' = _quote_iri_segment(IF p = NoText THEN "" ELSE p)
          /\ counter' = CachedCounter(_counter_cache, proposal')
    /\ genpc' = "loop"
    /\ issued' = None
    /\ UNCHANGED <<_namespace, provider, _counter_cache, calls, readVars, callVars, schemaVars>>

\* the provider holds the iri tried: counter += 1
Collision ==
    /\ genpc = "loop"
    /\ ~Raised(get_identifiable(provider,
                                Identifier(Iri(_namespace, proposal, counter), "IdentifierType.IRI")))
    /\ counter' = counter + 1
    /\ UNCHANGED <<_namespace, provider, _counter_cache, proposal, genpc, issued, calls,
                   readVars, callVars, schemaVars>>

\* variant: the counter after the one returned is cached
ReturnIdCachingNext ==
    /\ genpc = "loop"
    /\ Raised(get_identifiable(provider,
                               Identifier(Iri(_namespace, proposal, counter), "IdentifierType.IRI")))
    /\ _counter_cache' = (proposal :> (counter + 1)) @@ _counter_cache
    /\ issued' = Identifier(Iri(_namespace, proposal, counter), "IdentifierType.IRI")
    /\ genpc' = "returned"
    /\ calls' = Append(calls, [proposal |-> proposal, id |-> issued', registered |-> FALSE])
    /\ UNCHANGED <<_namespace, provider, proposal, counter, readVars, callVars, schemaVars>>

\* the provider raises KeyError: the counter is cached and the Identifier returned
ReturnId ==
    /\ genpc = "loop"
    /\ Raised(get_identifiable(provider,
                               Identifier(Iri(_namespace, proposal, counter), "IdentifierType.IRI")))
    /\ _counter_cache' = (proposal :> counter) @@ _counter_cache
    /\ issued' = Identifier(Iri(_namespace, proposal, counter), "IdentifierType.IRI")
    /\ genpc' = "returned"
    /\ calls' = Append(calls, [proposal |-> proposal, id |-> issued', registered |-> FALSE])
    /\ UNCHANGED <<_namespace, provider, proposal, counter, readVars, callVars, schemaVars>>

\* the caller gives the provider an object of the Identifier returned
Register ==
    /\ genpc = "returned"
    /\ Cardinality(provider) < MaxIds
    /\ provider' = provider \cup {issued}
    /\ calls' = [calls EXCEPT ![Len(calls)].registered = TRUE]
    /\ genpc' = "ready"
    /\ UNCHANGED <<_namespace, _counter_cache, proposal, counter, issued,
                   readVars, callVars, schemaVars>>

\* the caller drops the Identifier returned
Discard ==
    /\ genpc = "returned"
    /\ genpc' = "ready"
    /\ UNCHANGED <<_namespace, provider, _counter_cache, proposal, counter, issued, calls,
                   readVars, callVars, schemaVars>>

\* NamespaceIRIGenerator(namespace, provider), the provider empty or holding an
\* object that was not generated
GenInit ==
    /\ _namespace \in Namespaces
    /\ provider \in {{}, {Identifier(_namespace \o "a", "IdentifierType.IRI")},
                     {Identifier(_namespace \o "a", "IdentifierType.CUSTOM")}}
    /\ _counter_cache = <<>>
    /\ proposal = NoText
    /\ counter = 0
    /\ genpc = "ready"
    /\ issued = None
    /\ calls = <<>>
    /\ ReadIdle /\ CallIdle /\ SchemaIdle

GenNext ==
    \/ GenerateId
    \/ Collision
    \/ ReturnId
    \/ Register
    \/ Discard

\* the loop of generate_id goes on while it can
GenSpec == GenInit /\ [][GenNext]_vars /\ WF_vars(Collision) /\ WF_vars(ReturnId)

-----------------------------------------------------------------------------
(* aas.compliance_tool.compliance_check_json: check_schema *)

\* state_manager.add_step(name): a new last step, its status not set yet
add_step(sm, name) == Append(sm, [name |-> name, status |-> NoText, log |-> <<>>])

\* state_manager.set_step_status(status): the status of the last step
set_step_status(sm, status) == [sm EXCEPT ![Len(sm)].status = status]

\* logger.error(error), the state manager being the handler of the logger: the
\* record goes to the last step
logger_error(sm, error) == [sm EXCEPT ![Len(sm)].log = Append(@, error)]

\* variant: the handler for IOError returns after the second step
ExceptIOErrorShort(sm) ==
    set_step_status(
        add_step(logger_error(set_step_status(sm, "Status.FAILED"), "IOError"),
                 "Read file and check if it is conform to the json syntax"),
        "Status.NOT_EXECUTED")

\* the handler for IOError of open(file_path)
ExceptIOError(sm) ==
    set_step_status(
        add_step(
            set_step_status(
                add_step(logger_error(set_step_status(sm, "Status.FAILED"), "IOError"),
                         "Read file and check if it is conform to the json syntax"),
                "Status.NOT_EXECUTED"),
            "Validate file against official json schema"),
        "Status.NOT_EXECUTED")

\* the handler for JSONDecodeError of json.load(file_to_be_checked)
ExceptJSONDecodeError(sm) ==
    set_step_status(
        add_step(logger_error(set_step_status(sm, "Status.FAILED"), "JSONDecodeError"),
                 "Validate file against official json schema"),
        "Status.NOT_EXECUTED")

\* state_manager.add_step('Open file')
AddOpenStep ==
    /\ schemapc = "add_step"
    /\ steps' = add_step(steps, "Open file")
    /\ schemapc' = "open"
    /\ UNCHANGED <<added, readVars, callVars, genVars>>

\* open(file_path) raises IOError
OpenRaises ==
    /\ schemapc = "open"
    /\ steps' = ExceptIOError(steps)
    /\ schemapc' = "returned"
    /\ UNCHANGED <<added, readVars, callVars, genVars>>

\* open(file_path) returns: the step succeeded and the next one is added
OpenReturns ==
    /\ schemapc = "open"
    /\ steps' = add_step(set_step_status(steps, "Status.SUCCESS"),
                         "Read file and check if it is conform to the json syntax")
    /\ schemapc' = "load"
    /\ UNCHANGED <<added, readVars, callVars, genVars>>

\* json.load(file_to_be_checked) raises JSONDecodeError
LoadRaisesJSONDecodeError ==
    /\ schemapc = "load"
    /\ steps' = ExceptJSONDecodeError(steps)
    /\ schemapc' = "returned"
    /\ UNCHANGED <<added, readVars, callVars, genVars>>

\* json.load(file_to_be_checked) raises another exception (UnicodeDecodeError, an
\* IOError of the read): no handler, it leaves check_schema
LoadRaisesOther ==
    /\ schemapc = "load"
    /\ schemapc' = "raised"
    /\ UNCHANGED <<steps, added, readVars, callVars, genVars>>

\* json.load(file_to_be_checked) returns
LoadReturns ==
    /\ schemapc = "load"
    /\ steps' = set_step_status(steps, "Status.SUCCESS")
    /\ schemapc' = "schema"
    /\ UNCHANGED <<added, readVars, callVars, genVars>>

\* the schema file cannot be opened or read: no handler, the exception leaves
\* check_schema
SchemaRaises ==
    /\ schemapc = "schema"
    /\ schemapc' = "raised"
    /\ UNCHANGED <<steps, added, readVars, callVars, genVars>>

\* the schema is loaded and the last step added
SchemaLoaded ==
    /\ schemapc = "schema"
    /\ steps' = add_step(steps, "Validate file against official json schema")
    /\ schemapc' = "import"
    /\ UNCHANGED <<added, readVars, callVars, genVars>>

\* import jsonschema raises ImportError
ImportRaises ==
    /\ schemapc = "import"
    /\ steps' = logger_error(set_step_status(steps, "Status.NOT_EXECUTED"),
                             "Python package 'jsonschema' is required for validating the JSON file.")
    /\ schemapc' = "returned"
    /\ UNCHANGED <<added, readVars, callVars, genVars>>

\* import jsonschema succeeds
ImportReturns ==
    /\ schemapc = "import"
    /\ schemapc' = "validate"
    /\ UNCHANGED <<steps, added, readVars, callVars, genVars>>

\* jsonschema.validate raises ValidationError
ValidateRaises ==
    /\ schemapc = "validate"
    /\ steps' = logger_error(set_step_status(steps, "Status.FAILED"), "ValidationError")
    /\ schemapc' = "returned"
    /\ UNCHANGED <<added, readVars, callVars, genVars>>

\* jsonschema.validate returns
ValidateReturns ==
    /\ schemapc = "validate"
    /\ steps' = set_step_status(steps, "Status.SUCCESS")
    /\ schemapc' = "returned"
    /\ UNCHANGED <<added, readVars, callVars, genVars>>

\* the largest number of steps the state manager holds before the call
MaxPrior == 2

\* the steps of earlier checks the state manager may hold
PriorSteps ==
    SeqsUpTo({[name |-> "Open file", status |-> st, log |-> <<>>] :
                 st \in {"Status.SUCCESS", "Status.FAILED", "Status.NOT_EXECUTED"}},
             MaxPrior)

\* check_schema(file_path, state_manager) is called
SchemaInit ==
    /\ steps \in PriorSteps
    /\ added = Len(steps)
    /\ schemapc = "add_step"
    /\ ReadIdle /\ CallIdle /\ GenIdle

SchemaNext ==
    \/ AddOpenStep
    \/ OpenRaises
    \/ OpenReturns
    \/ LoadRaisesJSONDecodeError
    \/ LoadRaisesOther
    \/ LoadReturns
    \/ SchemaRaises
    \/ SchemaLoaded
    \/ ImportRaises
    \/ ImportReturns
    \/ ValidateRaises
    \/ ValidateReturns

SchemaSpec == SchemaInit /\ [][SchemaNext]_vars

-----------------------------------------------------------------------------
(* vocabulary of the properties *)

\* a call with failsafe=False, one with failsafe=True, has ended
StrictDone == ~failsafe /\ pc \in {"returned", "raised"}
LenientDone == failsafe /\ pc \in {"returned", "raised"}

StartsWith(s, prefix) == Len(s) >= Len(prefix) /\ SubSeq(s, 1, Len(prefix)) = prefix
EndsWith(s, suffix) ==
    Len(s) >= Len(suffix) /\ SubSeq(s, Len(s) - Len(suffix) + 1, Len(s)) = suffix

Contains(s, part) ==
    \E i \in 1..(Len(s) - Len(part) + 1) : SubSeq(s, i, i + Len(part) - 1) = part

\* the values of a sequence that are not None, in their order
Compact(seq) == SelectSeq(seq, LAMBDA v : v # None)

RECURSIVE Concat(_)
Concat(seqs) == IF seqs = <<>> THEN <<>> ELSE Head(seqs) \o Concat(Tail(seqs))

IsPrefix(p, q) == Len(p) <= Len(q) /\ SubSeq(q, 1, Len(p)) = p

\* of the two lines logged for a suppressed construction failure: the causal
\* trace, and the closing "Failed to construct X!"
IsTraceLine(l) == l.level = "ERROR" /\ ~StartsWith(l.msg, "Failed to construct ")
IsFailedLine(l) == l.level = "ERROR" /\ StartsWith(l.msg, "Failed to construct ")

\* the warning logged for a skipped list group
IsSkipLine(l) == l.level = "WARNING" /\ StartsWith(l.msg, "Unexpected top-level list ")

\* the lines that tell of a suppressed failure or a skipped group, in log order
Suppressed(lines) == SelectSeq(lines, LAMBDA l : IsTraceLine(l) \/ IsSkipLine(l))

\* the exception at the end of the __cause__ chain
RECURSIVE RootCause(_)
RootCause(e) == IF e.cause = NoExc THEN e ELSE RootCause(e.cause)

\* the messages of the chain, the exception itself first, the root cause left out
RECURSIVE Frames(_)
Frames(e) == IF e.cause = NoExc THEN <<>> ELSE <<e.msg>> \o Frames(e.cause)

\* the failure of DictObjectStore.add
IsDuplicateFailure(e) ==
    e.type = "KeyError" /\ StartsWith(e.msg, "Identifiable object with same identification ")

\* the failure raised for a list group with an unexpected tag
IsListFailure(e) == e.type = "TypeError" /\ StartsWith(e.msg, "Unexpected top-level list ")

\* the logged line tells of the failure e: it starts with the root cause of e
Explains(line, e) ==
    IF IsSkipLine(line) THEN IsListFailure(e) /\ line.msg = e.msg
    ELSE StartsWith(line.msg, RootCause(e).type \o ": " \o _exception_to_str(RootCause(e))
                              \o "\n -> ")

\* the elements of a tree in document order: an element before its children
RECURSIVE Preorder(_)
RECURSIVE PreorderAll(_)
Preorder(element) == <<element>> \o PreorderAll(element.children)
PreorderAll(elements) ==
    IF elements = <<>> THEN <<>> ELSE Preorder(Head(elements)) \o PreorderAll(Tail(elements))

\* the place of the first occurrence of x in a sequence, past its end if there is none
Pos(seq, x) ==
    IF \E i \in 1..Len(seq) : seq[i] = x
    THEN CHOOSE i \in 1..Len(seq) : seq[i] = x /\ \A j \in 1..(i - 1) : seq[j] # x
    ELSE Len(seq) + 1

\* the element without the subtrees that are in xs
RECURSIVE RemoveAll(_, _)
RemoveAll(element, xs) ==
    [element EXCEPT !.children =
        [i \in 1..Len(SelectSeq(@, LAMBDA c : c \notin xs)) |->
            RemoveAll(SelectSeq(@, LAMBDA c : c \notin xs)[i], xs)]]

\* the four tags of the top-level elements, and the list groups named after them
TopLevelTags == {"assetAdministrationShell", "asset", "submodel", "conceptDescription"}
IsTopLevelList(l) == \E t \in TopLevelTags : l.tag = NS_AAS \o t \o "s"
ElementTagOf(l) == NS_AAS \o (CHOOSE t \in TopLevelTags : l.tag = NS_AAS \o t \o "s")

\* the children of a list group that have the element tag of the group
MatchingChildren(l) == SelectSeq(l.children, LAMBDA c : c.tag = ElementTagOf(l))

\* the elements of the correctly named list groups that have the element tag of
\* their group, in document order, each with the constructor of its group
RECURSIVE TopLevelElements(_)
TopLevelElements(groups) ==
    IF groups = <<>> THEN <<>>
    ELSE (IF ~IsTopLevelList(Head(groups)) THEN <<>>
          ELSE [i \in 1..Len(MatchingChildren(Head(groups))) |->
                    [element |-> MatchingChildren(Head(groups))[i],
                     constructor |-> element_constructors[ElementTagOf(Head(groups))]]])
         \o TopLevelElements(Tail(groups))

\* the outcomes of constructing the elements one by one
Outcomes(top, failsafe_) ==
    [i \in 1..Len(top) |-> _failsafe_construct(top[i].element, top[i].constructor, failsafe_)]

\* what the outcomes returned, None where the construction failed
Values(outcomes) == [i \in 1..Len(outcomes) |-> outcomes[i].val]

\* what the elements decode to with failsafe=True, None where the construction fails
Entities(top) == Values(Outcomes(top, TRUE))

\* two of the entities have the same Identifier
SameIdentifier(entities) ==
    \E i, j \in 1..Len(entities) :
        /\ i < j
        /\ entities[i] # None /\ entities[j] # None
        /\ entities[i].identification = entities[j].identification

HasDuplicate(root) == SameIdentifier(Entities(TopLevelElements(root.children)))

-----------------------------------------------------------------------------
(* properties of read_xml_aas_file *)

\* C1: with failsafe=True the call never ends by raising, whatever the file holds:
\* it always returns the store
C1_LenientNeverRaises == failsafe => pc # "raised"

\* C3: when two top-level elements decode to entities with the same Identifier, the
\* call with failsafe=True returns, exactly one logged line tells of the duplicate,
\* and the store holds one entity for the Identifier
C3_LenientKeepsFirstSeen ==
    (LenientDone /\ HasDuplicate(doc)) =>
        /\ pc = "returned"
        /\ Cardinality({i \in 1..Len(log) :
                           Contains(log[i].msg, "Identifiable object with same identification")}) = 1
        /\ \A i, j \in 1..Len(ret) : i # j => ret[i].identification # ret[j].identification

\* the duplicate with failsafe=False: the call raises
StrictFailsOnDuplicate == (StrictDone /\ HasDuplicate(doc)) => pc = "raised"

\* the duplicate with failsafe=True: the KeyError of the store leaves the call
LenientFailsOnDuplicate ==
    (LenientDone /\ HasDuplicate(doc)) => (pc = "raised" /\ IsDuplicateFailure(exc))

\* the faults the statement of C2 rules out, as far as a line of the log tells of
\* one: a skipped list group, a missing child, attribute or text, an unknown tag
\* (all KeyError), a text or attribute that is no key of its mapping table
IsStructuralFault(l) ==
    \/ IsSkipLine(l)
    \/ IsTraceLine(l) /\ \/ StartsWith(l.msg, "KeyError: ")
                         \/ StartsWith(l.msg, "ValueError: Text of XML element ")
                         \/ StartsWith(l.msg, "ValueError: Attribute ")

\* both calls returned, and returned stores with the same entities
SameStores == strictRun.pc = "returned" /\ pc = "returned" /\ strictRun.ret = ret

\* C2 as stated: a file without a structural fault and without a duplicate
\* Identifier decodes to the same store with failsafe=False and failsafe=True
C2_WellFormedSameStores ==
    (LenientDone /\ ~HasDuplicate(doc) /\ \A i \in 1..Len(log) : ~IsStructuralFault(log[i]))
        => SameStores

\* C2, amended: a file on which no construction fails at all (no structural fault,
\* and no element text that its value type or base64 does not admit), no list
\* group is skipped and no Identifier occurs twice decodes to the same store with
\* failsafe=False and failsafe=True
C2_FaultFreeSameStores ==
    (LenientDone /\ ~HasDuplicate(doc) /\ Suppressed(log) = <<>>) => SameStores

\* a fault-free file with two entities has been read both ways
C2_Witness ==
    LenientDone /\ ~HasDuplicate(doc) /\ Suppressed(log) = <<>> /\ Len(ret) = 2

\* the line of the log whose element comes first in the document
FirstInDocument(lines, root) ==
    lines[CHOOSE i \in 1..Len(lines) :
              \A j \in 1..Len(lines) :
                  \/ Pos(Preorder(root), lines[i].at) < Pos(Preorder(root), lines[j].at)
                  \/ Pos(Preorder(root), lines[i].at) = Pos(Preorder(root), lines[j].at) /\ i <= j]

\* C4 as stated, for the files the call with failsafe=True returns on: the call
\* with failsafe=False raises exactly if the other suppressed a failure or skipped
\* a list group, it raises the failure that comes first in document order, and
\* its store holds nothing constructed after it
C4_FirstInDocumentOrder ==
    (LenientDone /\ pc = "returned") =>
        /\ (strictRun.pc = "raised") <=> (Suppressed(log) # <<>>)
        /\ strictRun.pc = "raised" =>
               Explains(FirstInDocument(Suppressed(log), doc), strictRun.exc)
        /\ IsPrefix(strictRun.ret, ret)

\* the number of top-level elements the call took before the one it raised at
TakenBefore(run, root) ==
    Len(TopLevelElements(SubSeq(root.children, 1, run.gi - 1)))
    + (IF IsListFailure(run.exc) THEN 0 ELSE run.ei - 1)

\* C4, amended: the call with failsafe=False raises exactly if the call with
\* failsafe=True suppresses a failure, skips a list group or itself raises on a
\* duplicate Identifier; it raises the failure the other call logs first (the
\* first in the order the constructors look their children up), or the same
\* duplicate failure; and its store holds exactly the entities of the elements
\* before the one it raised at
C4_FirstInEvaluationOrder ==
    LenientDone =>
        /\ (strictRun.pc = "raised") <=> (Suppressed(log) # <<>> \/ pc = "raised")
        /\ strictRun.pc = "raised" =>
               /\ IF Suppressed(log) # <<>>
                  THEN Explains(Suppressed(log)[1], strictRun.exc)
                  ELSE IsDuplicateFailure(strictRun.exc) /\ exc = strictRun.exc
               /\ strictRun.ret =
                      Compact(SubSeq(Entities(TopLevelElements(doc.children)), 1,
                                     TakenBefore(strictRun, doc)))
        /\ IsPrefix(strictRun.ret, ret)

\* a file on which the failure first in document order is not the one raised
C4_Witness ==
    /\ LenientDone /\ pc = "returned" /\ strictRun.pc = "raised"
    /\ Len(Suppressed(log)) >= 2
    /\ Explains(Suppressed(log)[1], strictRun.exc)
    /\ ~Explains(FirstInDocument(Suppressed(log), doc), strictRun.exc)

\* a line that tells of a text or an attribute that is no key of its mapping table
IsEnumFault(l) ==
    IsTraceLine(l) /\ \/ StartsWith(l.msg, "ValueError: Text of XML element ")
                      \/ StartsWith(l.msg, "ValueError: Attribute ")

\* the call with failsafe=True returned and suppressed one failure, an invalid
\* enumerated value, and nothing else
OneEnumFault ==
    /\ LenientDone /\ pc = "returned"
    /\ Len(Suppressed(log)) = 1
    /\ IsEnumFault(Suppressed(log)[1])

\* the top-level elements without the subtrees in xs
TopWithout(top, xs) ==
    [i \in 1..Len(SelectSeq(top, LAMBDA t : t.element \notin xs)) |->
        [element |-> RemoveAll(SelectSeq(top, LAMBDA t : t.element \notin xs)[i].element, xs),
         constructor |-> SelectSeq(top, LAMBDA t : t.element \notin xs)[i].constructor]]

\* every construction returned, and the store holds what they returned
StoreIs(store, outcomes) ==
    /\ \A i \in 1..Len(outcomes) : ~Raised(outcomes[i]) /\ outcomes[i].val # None
    /\ store = Values(outcomes)

\* a submodel whose only element is a property with a value type that is no key
\* of the table of the scalar types
OnlyBadProperty(element) ==
    /\ element.tag = NS_AAS \o "submodel"
    /\ Find(element, NS_AAS \o "submodelElements") # None
    /\ Len(Find(element, NS_AAS \o "submodelElements").children) = 1
    /\ Find(element, NS_AAS \o "submodelElements").children[1].tag = NS_AAS \o "property"
    /\ _get_text_or_none(Find(Find(element, NS_AAS \o "submodelElements").children[1],
                              NS_AAS \o "valueType")) \notin DOMAIN XSD_TYPE_CLASSES

\* the entity of such a submodel is in the store and has no elements
EmptySubmodelsKept(top, entities, store) ==
    \A i \in 1..Len(top) :
        OnlyBadProperty(top[i].element) =>
            /\ entities[i] \in Range(store)
            /\ entities[i].submodel_element.items = <<>>

\* C5: when one invalid enumerated value is all that is wrong with a file, the
\* store returned with failsafe=True is the store the file without the subtree
\* the failure was suppressed at decodes to (with failsafe=False, nothing failing):
\* that subtree is absent, everything else is there unchanged; the call with
\* failsafe=False raises; a submodel whose only element is a property with an
\* invalid value type is in the store, with no elements
C5_OnlyThatSubtreeAbsent ==
    OneEnumFault =>
        /\ StoreIs(ret, Outcomes(TopWithout(TopLevelElements(doc.children),
                                            {Suppressed(log)[1].at}), FALSE))
        /\ strictRun.pc = "raised"
        /\ EmptySubmodelsKept(TopLevelElements(doc.children),
                              Entities(TopLevelElements(doc.children)), ret)

\* a submodel has lost one of three elements, the second, and kept the others
C5_Witness ==
    /\ OneEnumFault
    /\ \E i \in 1..Len(ret) :
          /\ ret[i].cls = "Submodel"
          /\ Len(ret[i].submodel_element.items) = 2
          /\ ret[i].submodel_element.items[2].cls = "Capability"

\* the frame of the trace for an element with the tag property
IsPropertyFrame(msg) ==
    StartsWith(msg, "while converting XML element with tag " \o NS_AAS \o "property to type ")

\* the call with failsafe=False raised for the value type of a property
BadValueTypeOfProperty ==
    /\ StrictDone /\ pc = "raised"
    /\ StartsWith(RootCause(exc).msg, "Text of XML element " \o NS_AAS \o "valueType is invalid: ")
    /\ \E i \in 1..Len(Frames(exc)) : IsPropertyFrame(Frames(exc)[i])

\* C6 as stated: the call with failsafe=False raises a ValueError and a frame of
\* its trace ends with "to type Property"
C6_FrameNamesProperty ==
    BadValueTypeOfProperty =>
        /\ exc.type = "ValueError"
        /\ \E i \in 1..Len(Frames(exc)) : EndsWith(Frames(exc)[i], " to type Property")

\* C6, amended: the call with failsafe=False raises a ValueError; the frame for
\* the property element names the type SubmodelElement (the constructor the
\* wrapper was given), the outermost frame names Submodel, and no frame names
\* Property
C6_FrameNamesSubmodelElement ==
    BadValueTypeOfProperty =>
        /\ exc.type = "ValueError" /\ RootCause(exc).type = "ValueError"
        /\ \A i \in 1..Len(Frames(exc)) :
              /\ IsPropertyFrame(Frames(exc)[i]) =>
                     EndsWith(Frames(exc)[i], "property to type SubmodelElement")
              /\ ~EndsWith(Frames(exc)[i], " to type Property")
        /\ Frames(exc)[1] = "while converting XML element with tag " \o NS_AAS
                            \o "submodel to type Submodel"

\* the failure has been raised through the property and the submodel
C6_Witness == BadValueTypeOfProperty /\ Len(Frames(exc)) = 2

\* the nodes, each to be given to the same constructor
Each(nodes, constructor) ==
    [i \in 1..Len(nodes) |-> [element |-> nodes[i], constructor |-> constructor]]

\* the generator, consumed to its end, yielded the values that are not None of
\* vals (what the nodes construct to one by one), in their order: as many as
\* there are nodes less the failed ones
YieldedAll(generated, vals) ==
    /\ ~Raised(generated)
    /\ generated.val = Compact(vals)
    /\ Len(generated.val) = Len(vals) - Cardinality({i \in 1..Len(vals) : vals[i] = None})

\* _failsafe_construct_multiple with failsafe=True, consumed at once
Eager(nodes, constructor) ==
    YieldedAll(_failsafe_construct_multiple(nodes, constructor, TRUE),
               Values(Outcomes(Each(nodes, constructor), TRUE)))

\* C7: with failsafe=True, the generator over N nodes of which k fail yields the
\* N - k values of the others in the order of the nodes, consumed at once (for
\* the elements of the list group and for the children of every node below it,
\* taken as submodel elements) or value by value (by the loop of
\* read_xml_aas_file, after ei of the elements)
C7_YieldsTheSuccessesInOrder ==
    (failsafe /\ pc = "group") =>
        /\ Eager(GroupElements(list_), element_constructors[list_element_tag(list_)])
        /\ \A p \in Range(Preorder(list_)) : Eager(p.children, "_construct_submodel_element")
        /\ yielded = Compact(Values(Outcomes(
                         Each(SubSeq(GroupElements(list_), 1, ei),
                              element_constructors[list_element_tag(list_)]), TRUE)))

\* a list group of two elements has been consumed, the first failed, the second
\* was yielded
C7_Witness ==
    /\ failsafe /\ pc = "group"
    /\ ei = 2 /\ Len(GroupElements(list_)) = 2
    /\ Len(yielded) = 1
    /\ _failsafe_construct(GroupElements(list_)[1],
                           element_constructors[list_element_tag(list_)], TRUE).val = None

\* an operation variable whose value element has no child
IsEmptyOperationVariable(element) ==
    /\ element.tag = NS_AAS \o "operationVariable"
    /\ Find(element, NS_AAS \o "value") # None
    /\ Find(element, NS_AAS \o "value").children = <<>>

EmptyOperationVariables(element) ==
    {x \in Range(Preorder(element)) : IsEmptyOperationVariable(x)}

\* the two calls raised, and raised the same
FailAlike(strict, lenient) == Raised(strict) /\ Raised(lenient) /\ strict.exc = lenient.exc

\* the operation was constructed with failsafe=True, to what the operation without
\* the empty operation variables constructs to, and one failure was logged for
\* each of them
Confined(lenient, without, empties) ==
    /\ ~Raised(lenient) /\ lenient.val # None
    /\ ~Raised(without) /\ lenient.val = without.val
    /\ Len(SelectSeq(lenient.log,
                     LAMBDA l : l.msg = "Failed to construct OperationVariable!")) = empties

\* the operation is in the store, in the submodel it is an element of
Stored(operation, top, entities, store) ==
    \A i \in 1..Len(top) :
        (/\ entities[i] # None
         /\ Find(top[i].element, NS_AAS \o "submodelElements") # None
         /\ \E c \in Range(Find(top[i].element, NS_AAS \o "submodelElements").children) :
                c.tag = NS_AAS \o "operation"
                /\ _failsafe_construct(c, "_construct_operation", TRUE).val = operation)
        => /\ entities[i] \in Range(store)
           /\ operation \in Range(entities[i].submodel_element.items)

\* C8: an operation variable whose value element has no child fails to construct
\* with failsafe=False and with failsafe=True alike, and the call with
\* failsafe=False on its file raises; with failsafe=True only the operation
\* variable is lost: its operation is constructed, without it, and is in the store
C8_EmptyOperationVariableFails ==
    LenientDone =>
        \A e \in Range(Preorder(doc)) :
            /\ IsEmptyOperationVariable(e) =>
                   /\ FailAlike(Call("_construct_operation_variable", e, FALSE),
                                Call("_construct_operation_variable", e, TRUE))
                   /\ strictRun.pc = "raised"
            /\ e.tag = NS_AAS \o "operation" =>
                   /\ Confined(_failsafe_construct(e, "_construct_operation", TRUE),
                               _failsafe_construct(RemoveAll(e, EmptyOperationVariables(e)),
                                                   "_construct_operation", FALSE),
                               Len(SelectSeq(Preorder(e), IsEmptyOperationVariable)))
                   /\ pc = "returned" =>
                          Stored(_failsafe_construct(e, "_construct_operation", TRUE).val,
                                 TopLevelElements(doc.children),
                                 Entities(TopLevelElements(doc.children)), ret)

\* an operation with an empty operation variable is in the store, with the two
\* other operation variables
C8_Witness ==
    /\ LenientDone /\ pc = "returned"
    /\ \E e \in Range(Preorder(doc)) : IsEmptyOperationVariable(e)
    /\ \E i \in 1..Len(ret) :
          /\ ret[i].cls = "Submodel"
          /\ \E k \in 1..Len(ret[i].submodel_element.items) :
                /\ ret[i].submodel_element.items[k].cls = "Operation"
                /\ Len(ret[i].submodel_element.items[k].in_output_variable) = 2

\* the places of the list groups whose tag is not the plural of a top-level tag
UnexpectedGroups(root) ==
    {i \in 1..Len(root.children) : ~IsTopLevelList(root.children[i])}

\* the warnings for the list groups at the places, in the order of the places
RECURSIVE SkipLines(_, _)
SkipLines(groups, n) ==
    IF n = 0 THEN <<>>
    ELSE SkipLines(groups, n - 1)
         \o (IF IsTopLevelList(groups[n]) THEN <<>>
             ELSE <<LogLine("WARNING", "Unexpected top-level list " \o groups[n].tag \o "!",
                            groups[n])>>)

\* the store holds what the elements of the expected list groups construct to,
\* and nothing else
OnlyFrom(store, entities) ==
    /\ \A x \in Range(store) : \E i \in 1..Len(entities) : entities[i] = x
    /\ \A i \in 1..Len(entities) : entities[i] # None => entities[i] \in Range(store)

\* C9: for the list groups whose tag is not the plural of one of the four
\* top-level tags: the call with failsafe=True logs one warning for each,
\* constructs nothing from them and goes on with the other groups; the call with
\* failsafe=False never takes a group after the first of them, and having taken
\* it has raised the TypeError for its tag
C9_UnexpectedListGroup ==
    /\ (LenientDone /\ pc = "returned") =>
           /\ SelectSeq(log, IsSkipLine) = SkipLines(doc.children, Len(doc.children))
           /\ OnlyFrom(ret, Entities(TopLevelElements(doc.children)))
    /\ (~failsafe /\ UnexpectedGroups(doc) # {}) =>
           /\ \A u \in UnexpectedGroups(doc) : gi <= u
           /\ StrictDone => pc = "raised"
           /\ gi \in UnexpectedGroups(doc) =>
                  /\ pc = "raised"
                  /\ exc = Raise("TypeError",
                                 "Unexpected top-level list " \o doc.children[gi].tag \o "!").exc

\* a file whose first list group is unexpected and holds an element: with
\* failsafe=False the call raised at it, with failsafe=True it skipped it and
\* stored what the second group holds
C9_Witness ==
    /\ LenientDone /\ pc = "returned"
    /\ 1 \in UnexpectedGroups(doc) /\ doc.children[1].children # <<>>
    /\ Len(ret) = 1 /\ Len(log) = 1
    /\ strictRun.pc = "raised" /\ strictRun.gi = 1 /\ strictRun.ret = <<>>

\* the children of the expected list groups that have not the element tag of
\* their group
ForeignChildren(root) ==
    {c \in Range(PreorderAll(root.children)) :
        \E i \in 1..Len(root.children) :
            /\ IsTopLevelList(root.children[i])
            /\ c \in Range(root.children[i].children)
            /\ c.tag # ElementTagOf(root.children[i])}

\* C10 as stated: a child of an expected list group that has not the element tag
\* of the group is reported: logged with failsafe=True, raised for with
\* failsafe=False
C10_ForeignChildReported ==
    (LenientDone /\ pc = "returned" /\ ForeignChildren(doc) # {}) =>
        /\ strictRun.pc = "raised"
        /\ \A c \in ForeignChildren(doc) :
              \E i \in 1..Len(log) : log[i].level = "ERROR" /\ log[i].at = c

\* what is logged for the list groups: the warning for an unexpected group, the
\* lines of the constructions of the elements with the element tag for the others
RECURSIVE ExpectedLog(_)
ExpectedLog(groups) ==
    IF groups = <<>> THEN <<>>
    ELSE (IF ~IsTopLevelList(Head(groups)) THEN SkipLines(<<Head(groups)>>, 1)
          ELSE Concat([i \in 1..Len(Outcomes(TopLevelElements(<<Head(groups)>>), TRUE)) |->
                          Outcomes(TopLevelElements(<<Head(groups)>>), TRUE)[i].log]))
         \o ExpectedLog(Tail(groups))

\* C10, amended: of the children of an expected list group only those with the
\* element tag of the group are given to the constructor; the others are passed
\* over without a line in the log, with failsafe=True and with failsafe=False:
\* the store and the log are those of the elements with the element tag
C10_ForeignChildIgnored ==
    (LenientDone /\ pc = "returned") =>
        /\ ret = Compact(Entities(TopLevelElements(doc.children)))
        /\ log = ExpectedLog(doc.children)
        /\ (Suppressed(log) = <<>>) =>
               strictRun.pc = "returned" /\ strictRun.ret = ret /\ strictRun.log = log

\* a list group with two children of other tags has been read both ways: one
\* entity, nothing logged, nothing raised
C10_Witness ==
    /\ LenientDone /\ pc = "returned"
    /\ Cardinality(ForeignChildren(doc)) = 2
    /\ Len(ret) = 1 /\ log = <<>>
    /\ strictRun.pc = "returned"

-----------------------------------------------------------------------------
(* properties of single calls *)

\* a typed reference constructor has been called directly and has ended
TypedReferenceCalled ==
    /\ invocation # None /\ outcome # None
    /\ invocation.fn = "constructor"
    /\ invocation.constructor \in DOMAIN ReferenceType

\* the warning of _construct_aas_reference
IsTypeWarning(l) == l.level = "WARNING" /\ Contains(l.msg, " does not match reference type ")

\* the class the key's type names is type_ or a subclass of it
Compatible(key, type_) ==
    /\ key.type \in DOMAIN KEY_ELEMENTS_CLASSES_INVERSE
    /\ IsSubclass(KEY_ELEMENTS_CLASSES_INVERSE[key.type], type_)

\* r, the outcome of a typed reference constructor, against keys, the outcome of
\* constructing the key tuple of the same element: r fails only as keys fails;
\* otherwise it is the reference of these keys, with one warning if the last key
\* is of another type and none if there is no key or the last key fits
SoftlyChecked(keys, r, type_) ==
    /\ Raised(r) <=> Raised(keys)
    /\ Raised(r) => r.exc = keys.exc
    /\ ~Raised(r) =>
          /\ r.val = AASReference(keys.val, type_)
          /\ Len(SelectSeq(r.log, IsTypeWarning)) =
                IF Len(keys.val) # 0 /\ ~Compatible(keys.val[Len(keys.val)], type_)
                THEN 1 ELSE 0

\* C11: a typed reference constructor never fails because of the type of the
\* last key: with a key tuple whose last key is of a type that is not (a subclass
\* of) the expected one, or names no class, it logs exactly one warning and
\* returns the reference; with no key or a fitting last key it logs no warning
C11_TypeMismatchOnlyWarns ==
    TypedReferenceCalled =>
        SoftlyChecked(_construct_key_tuple(invocation.element, invocation.failsafe),
                      outcome, ReferenceType[invocation.constructor])

\* a reference to a property was constructed as a reference to a submodel
C11_Witness ==
    /\ TypedReferenceCalled /\ ~Raised(outcome)
    /\ invocation.constructor = "_construct_submodel_reference"
    /\ Len(outcome.val.key) = 2
    /\ outcome.val.key[2].type = "KeyElements.PROPERTY"
    /\ Len(SelectSeq(outcome.log, IsTypeWarning)) = 1

\* _failsafe_construct has been called on None and has ended
AbsentCalled ==
    /\ invocation # None /\ outcome # None
    /\ invocation.fn = "_failsafe_construct"
    /\ invocation.element = None

\* C15: _failsafe_construct on an absent element (None) returns None, with
\* failsafe=False as with failsafe=True: no exception, nothing logged, and so no
\* call of the constructor, whose failure would be raised or logged
C15_AbsentNodeReturnsAbsent == AbsentCalled => outcome = Ok(None)

\* the call with failsafe=False on None has returned None
C15_Witness ==
    AbsentCalled /\ ~invocation.failsafe /\ ~Raised(outcome) /\ outcome.val = None

-----------------------------------------------------------------------------
(* properties of the references of the stored objects *)

\* x, if it is an object, as a set
Held(x) == IF x = None THEN {} ELSE {x}

\* the references a stored object holds in its own fields
TopReferences(obj) ==
    (IF obj.cls = "AssetAdministrationShell"
     THEN {obj.asset} \cup obj.submodel \cup Held(obj.derived_from) ELSE {})
    \cup (IF obj.cls = "Asset"
          THEN Held(obj.asset_identification_model) \cup Held(obj.bill_of_material) ELSE {})
    \cup (IF obj.cls = "ConceptDescription" THEN obj.is_case_of ELSE {})
    \cup (IF obj.cls = "Submodel" THEN Held(obj.semantic_id) ELSE {})

\* C12: every reference held by an object of the store that read_xml_aas_file
\* returned, with failsafe=False or failsafe=True, has at least one key
C12_ReferencesHaveKeys ==
    pc = "returned" =>
        \A i \in 1..Len(ret) : \A r \in TopReferences(ret[i]) : Len(r.key) > 0

-----------------------------------------------------------------------------
(* properties of NamespaceIRIGenerator.generate_id *)

\* the Identifier of the iri tried for a counter
Tried(c) == Identifier(Iri(_namespace, proposal, c), "IdentifierType.IRI")

\* at the return the provider holds no object of the Identifier returned, which
\* is an IRI that begins with the namespace
Fresh ==
    genpc = "returned" =>
        /\ issued \notin provider
        /\ issued.id_type = "IdentifierType.IRI"
        /\ StartsWith(issued.id, _namespace)

\* in the loop the counter is not below the cached one, and every counter from
\* the cached one up to it has been tried and found in the provider
TriedInOrder ==
    genpc = "loop" =>
        /\ counter >= CachedCounter(_counter_cache, proposal)
        /\ \A c \in CachedCounter(_counter_cache, proposal)..(counter - 1) : Tried(c) \in provider

\* an iteration that does not return goes on with the next counter
CountsUp == (genpc = "loop" /\ genpc' = "loop") => counter' = counter + 1

\* C13: generate_id returns only an Identifier the provider does not hold at the
\* return, an IRI that begins with the namespace of the generator; it tries the
\* counters one by one upwards from the cached one; and, the provider holding
\* finitely many Identifiers, every call returns
C13_GeneratesFreshId ==
    /\ []Fresh
    /\ []TriedInOrder
    /\ [][CountsUp]_vars
    /\ (genpc = "loop" ~> genpc = "returned")

\* generate_id returned after two collisions
C13_Witness ==
    /\ genpc = "returned" /\ counter = 2
    /\ Tried(0) \in provider /\ Tried(1) \in provider
    /\ issued = Tried(2)

-----------------------------------------------------------------------------
(* properties of check_schema *)

\* the steps check_schema has added
OwnSteps == SubSeq(steps, added + 1, Len(steps))

\* the names of the three steps of check_schema
SchemaStepNames ==
    <<"Open file", "Read file and check if it is conform to the json syntax",
      "Validate file against official json schema">>

\* C14: whenever check_schema has returned, it has added exactly the three steps
\* 'Open file', 'Read file and check if it is conform to the json syntax' and
\* 'Validate file against official json schema', in this order; every step after
\* one whose status is FAILED has been set to NOT_EXECUTED, so none after it is
\* SUCCESS
C14_ThreeStepsInOrder ==
    /\ schemapc = "returned" =>
          /\ [i \in 1..Len(OwnSteps) |-> OwnSteps[i].name] = SchemaStepNames
          /\ \A i \in 1..Len(OwnSteps) : OwnSteps[i].status # NoText
    /\ \A i, j \in 1..Len(OwnSteps) :
          (i < j /\ OwnSteps[i].status = "Status.FAILED") =>
              (schemapc = "returned" => OwnSteps[j].status = "Status.NOT_EXECUTED")
              /\ OwnSteps[j].status # "Status.SUCCESS"

\* check_schema returned from the handler for IOError, the state manager holding
\* a successful step of an earlier check
C14_Witness ==
    /\ schemapc = "returned" /\ added = 1 /\ steps[1].status = "Status.SUCCESS"
    /\ Len(steps) = 4
    /\ steps[2].status = "Status.FAILED"
    /\ steps[3].status = "Status.NOT_EXECUTED" /\ steps[4].status = "Status.NOT_EXECUTED"

-----------------------------------------------------------------------------
(* properties of the causal trace *)

\* the tag without the namespace
LocalTag(element) == SubSeq(element.tag, Len(NS_AAS) + 1, Len(element.tag))

\* the elements that are handed to _failsafe_construct, _failsafe_construct_multiple
\* or _failsafe_construct_mandatory, by tag, and the type each is converted to
BoundaryTypes ==
    [t \in {"submodel"} |-> "Submodel"]
    @@ [t \in {"property", "operation", "submodelElementCollection", "capability", "blob"}
            |-> "SubmodelElement"]
    @@ [t \in {"semanticId", "valueId"} |-> "Reference"]
    @@ [t \in {"key"} |-> "Key"]
    @@ [t \in {"identification"} |-> "Identifier"]
    @@ [t \in {"operationVariable"} |-> "OperationVariable"]

IsBoundary(element) == LocalTag(element) \in DOMAIN BoundaryTypes

\* the elements from the root down to the first occurrence of an element, <<>> if
\* the element is not in the tree
RECURSIVE PathTo(_, _)
RECURSIVE PathIn(_, _)
PathTo(root, at) ==
    IF root = at THEN <<root>>
    ELSE LET below == PathIn(root.children, at)
         IN  IF below = <<>> THEN <<>> ELSE <<root>> \o below
PathIn(elements, at) ==
    IF elements = <<>> THEN <<>>
    ELSE LET first == PathTo(Head(elements), at)
         IN  IF first # <<>> THEN first ELSE PathIn(Tail(elements), at)

\* the frame a wrapper adds for the element
FrameOf(element) ==
    "while converting XML element with tag " \o element.tag \o " to type "
    \o BoundaryTypes[LocalTag(element)]

\* the frames of the boundaries among path[from..], the innermost first
RECURSIVE FramesFrom(_, _)
FramesFrom(path, from) ==
    IF from > Len(path) THEN <<>>
    ELSE FramesFrom(path, from + 1)
         \o (IF IsBoundary(path[from]) THEN <<FrameOf(path[from])>> ELSE <<>>)

RECURSIVE Reverse(_)
Reverse(seq) == IF seq = <<>> THEN <<>> ELSE Reverse(Tail(seq)) \o <<Head(seq)>>

\* the submodel of the invocation and its defect
FaultCalled ==
    /\ invocation # None /\ outcome # None
    /\ invocation \in FaultCalls
TheFault == CHOOSE f \in Faults : f.root = invocation.element
FaultPath == PathTo(TheFault.root, TheFault.at)

\* C16: with failsafe=False the failure of a helper function reaches the caller of
\* the outermost wrapper with one frame for each wrapper it passed, each naming the
\* tag and the type of that wrapper, the innermost frame next to the failure of the
\* helper, which ends the __cause__ chain unchanged
C16_OneFramePerBoundary ==
    (FaultCalled /\ ~invocation.failsafe) =>
        /\ Raised(outcome)
        /\ Reverse(Frames(outcome.exc)) = FramesFrom(FaultPath, 1)
        /\ RootCause(outcome.exc) = TheFault.leaf

\* a failure that passed six wrappers
C16_Witness ==
    /\ FaultCalled /\ ~invocation.failsafe
    /\ Raised(outcome)
    /\ Len(Frames(outcome.exc)) = 6
    /\ Len(FramesFrom(FaultPath, 1)) = 6

\* the wrappers that are always called with failsafe=False: those of
\* _failsafe_construct_mandatory, which constructs the identification and the
\* element of an operation variable
ForcedStrict(path, i) ==
    \/ LocalTag(path[i]) = "identification"
    \/ i > 2 /\ LocalTag(path[i - 2]) = "operationVariable"

\* the place in the path of the wrapper that suppresses the failure with
\* failsafe=True: the innermost boundary that is not forced to raise
Suppressor(path) ==
    CHOOSE i \in 1..Len(path) :
        /\ IsBoundary(path[i]) /\ ~ForcedStrict(path, i)
        /\ \A j \in (i + 1)..Len(path) : ~IsBoundary(path[j]) \/ ForcedStrict(path, j)

RECURSIVE Arrows(_)
Arrows(frames) ==
    IF frames = <<>> THEN "" ELSE "\n -> " \o Head(frames) \o Arrows(Tail(frames))

\* the trace of a failure suppressed at path[i]: the failure, then the frames from
\* the innermost wrapper out to the suppressing one
TraceOf(leaf, path, i) == leaf.type \o ": " \o leaf.msg \o Arrows(FramesFrom(path, i))

ErrorMessages(lines) ==
    [i \in 1..Len(SelectSeq(lines, LAMBDA l : l.level = "ERROR")) |->
        SelectSeq(lines, LAMBDA l : l.level = "ERROR")[i].msg]

\* C17: with failsafe=True a failure is logged by the wrapper that suppresses it,
\* and by no wrapper around it, as two ERROR lines: the trace, the failure first
\* and the frame of the suppressing wrapper last, then "Failed to construct X!";
\* that wrapper returns None, so the wrappers around it return their objects
C17_SuppressedFailureLoggedOnce ==
    (FaultCalled /\ invocation.failsafe) =>
        /\ ~Raised(outcome)
        /\ ErrorMessages(outcome.log)
            = <<TraceOf(TheFault.leaf, FaultPath, Suppressor(FaultPath)),
                "Failed to construct "
                \o BoundaryTypes[LocalTag(FaultPath[Suppressor(FaultPath)])] \o "!">>
        /\ (outcome.val = None) <=> (Suppressor(FaultPath) = 1)

\* a failure that a wrapper forced to raise hands to the suppressing wrapper, three
\* wrappers inside the outermost one
C17_Witness ==
    /\ FaultCalled /\ invocation.failsafe
    /\ Len(FramesFrom(FaultPath, Suppressor(FaultPath))) = 2
    /\ Len(FramesFrom(FaultPath, 1)) = 6
    /\ Len(ErrorMessages(outcome.log)) = 2
    /\ outcome.val # None

-----------------------------------------------------------------------------
(* properties of _failsafe_construct_multiple *)

MultipleCalled ==
    /\ invocation # None /\ outcome # None
    /\ invocation \in MultipleCalls

\* the place of the first outcome that is an exception, past the end if none is
FirstRaised(outcomes) ==
    IF \E i \in 1..Len(outcomes) : Raised(outcomes[i])
    THEN CHOOSE i \in 1..Len(outcomes) :
            Raised(outcomes[i]) /\ \A j \in 1..(i - 1) : ~Raised(outcomes[j])
    ELSE Len(outcomes) + 1

\* r is what the generator gives when the constructions of the elements one by one
\* give the outcomes: the exception of the first failure, the values of the
\* elements before it in their order, and the lines logged up to it
StopsAt(k, outcomes, r) ==
    /\ Raised(r) <=> k <= Len(outcomes)
    /\ k <= Len(outcomes) => r.exc = outcomes[k].exc
    /\ r.val = [i \in 1..(k - 1) |-> outcomes[i].val]
    /\ r.log = Concat([i \in 1..(IF k <= Len(outcomes) THEN k ELSE Len(outcomes)) |->
                            outcomes[i].log])
StopsAtFirstFailure(outcomes, r) == StopsAt(FirstRaised(outcomes), outcomes, r)

\* C18: with failsafe=False the generator raises at the first element that fails to
\* construct; the values of the elements before it have been yielded in their order
\* and no later element is constructed: nothing is logged for one
C18_StrictStopsAtFirstFailure ==
    (MultipleCalled /\ ~invocation.failsafe) =>
        StopsAtFirstFailure(Outcomes(Each(invocation.element.children,
                                          invocation.constructor), FALSE),
                            outcome)

\* a failure between a valid element and one that would log a warning
C18_Witness ==
    /\ MultipleCalled /\ ~invocation.failsafe
    /\ invocation.element.children = <<CapabilityOk, TemperatureBadType, OperationLoud>>
    /\ Raised(outcome)
    /\ Len(outcome.val) = 1
    /\ outcome.log = <<>>

-----------------------------------------------------------------------------
(* properties of _amend_abstract_attributes *)

AmendCalled ==
    /\ invocation # None /\ outcome # None
    /\ invocation \in AmendCalls

\* the optional children of the element that the amendment constructs, each with
\* its constructor: the description, the administration, the semanticId, then the
\* children of qualifiers; None for a child that is not there
Parts(element) ==
    <<[element |-> Find(element, NS_AAS \o "description"),
       constructor |-> "_construct_lang_string_set"],
      [element |-> Find(element, NS_AAS \o "administration"),
       constructor |-> "_construct_administrative_information"],
      [element |-> Find(element, NS_AAS \o "semanticId"),
       constructor |-> "_construct_reference"]>>
    \o Each(IF Find(element, NS_AAS \o "qualifiers") = None THEN <<>>
            ELSE Find(element, NS_AAS \o "qualifiers").children,
            "_construct_constraint")

\* obj has the fields that the parts construct to one by one, and no others: a
\* field is unset where its part is None
AmendedWith(vals, obj) ==
    /\ obj.description = vals[1]
    /\ obj.administration = vals[2]
    /\ obj.semantic_id = vals[3]
    /\ obj.qualifier = {vals[i] : i \in 4..Len(vals)} \ {None}

\* C19: with failsafe=True a description, administration, semanticId or constraint
\* that fails to construct leaves its field unset, or the constraint out of the
\* qualifiers; the other fields are set and the object is constructed
C19_AmendmentStepsIndependent ==
    (AmendCalled /\ invocation.failsafe) =>
        /\ ~Raised(outcome)
        /\ outcome.val # None
        /\ outcome.val.cls = "Submodel"
        /\ Len(outcome.val.submodel_element.items) = 1
        /\ AmendedWith(Entities(Parts(invocation.element)), outcome.val)

\* a description and a qualifier that fail beside a semanticId, an administration
\* and two constraints that are set
C19_Witness ==
    /\ AmendCalled /\ invocation.failsafe
    /\ Find(invocation.element, NS_AAS \o "description") = DescriptionBad
    /\ Find(invocation.element, NS_AAS \o "qualifiers")
        = Node("qualifiers", <<QualifierOk, QualifierBad, FormulaOk>>)
    /\ outcome.val # None
    /\ outcome.val.description = None
    /\ outcome.val.semantic_id # None
    /\ outcome.val.administration # None
    /\ Cardinality(outcome.val.qualifier) = 2

-----------------------------------------------------------------------------
(* properties of the containers of submodel elements *)

ContainerCalled ==
    /\ invocation # None /\ outcome # None
    /\ invocation \in ContainerCalls

\* the 13 tags of the submodel elements
SubmodelElementTags ==
    {"annotatedRelationshipElement", "basicEvent", "blob", "capability", "entity", "file",
     "multiLanguageProperty", "operation", "property", "range", "referenceElement",
     "relationshipElement", "submodelElementCollection"}

IsSubmodelElementTag(child) == \E t \in SubmodelElementTags : child.tag = NS_AAS \o t

\* the list of children of the container element, and what the constructed container
\* holds of them
ChildrenOf(container) ==
    CASE LocalTag(container) = "submodelElementCollection" ->
            Find(container, NS_AAS \o "value").children
      [] LocalTag(container) = "entity" -> Find(container, NS_AAS \o "statements").children
      [] LocalTag(container) = "submodel" ->
            Find(container, NS_AAS \o "submodelElements").children
ItemsOf(obj) ==
    CASE obj.cls = "Entity" -> obj.statement.items
      [] obj.cls = "Submodel" -> obj.submodel_element.items
      [] OTHER -> obj.value.items

Known(children) == SelectSeq(children, IsSubmodelElementTag)
Unknown(children) == SelectSeq(children, LAMBDA c : ~IsSubmodelElementTag(c))

\* the failure raised for a child with an unknown tag
UnknownVariant(child) ==
    [type |-> "KeyError", msg |-> "XML element " \o child.tag \o " is not a valid submodel element!"]

\* the two lines logged for each of the children, in their order
RECURSIVE SkippedLines(_)
SkippedLines(children) ==
    IF children = <<>> THEN <<>>
    ELSE <<"KeyError: XML element " \o Head(children).tag \o " is not a valid submodel element!"
           \o "\n -> while converting XML element with tag " \o Head(children).tag
           \o " to type SubmodelElement",
           "Failed to construct SubmodelElement!">>
         \o SkippedLines(Tail(children))

\* with failsafe=True the container holds what its other children construct to,
\* and each unknown child has been logged
SkipsUnknown(children, others, r) ==
    /\ ~Raised(r)
    /\ r.val # None
    /\ ItemsOf(r.val) = others
    /\ Len(others) = Len(Known(children))
    /\ ErrorMessages(r.log) = SkippedLines(Unknown(children))

\* with failsafe=False the failure of the first unknown child leaves the call
AbortsAtUnknown(children, r) ==
    IF Unknown(children) = <<>> THEN ~Raised(r)
    ELSE /\ Raised(r)
         /\ RootCause(r.exc).type = UnknownVariant(Head(Unknown(children))).type
         /\ RootCause(r.exc).msg = UnknownVariant(Head(Unknown(children))).msg

\* C20: a child of a collection value, of the statements of an entity or of the
\* submodelElements of a submodel whose tag is none of the 13 submodel element tags
\* fails with a KeyError; with failsafe=True that child is logged and left out and
\* the container is constructed with its other children, with failsafe=False the
\* failure leaves the call
C20_UnknownChildSkipped ==
    ContainerCalled =>
        IF invocation.failsafe
        THEN SkipsUnknown(ChildrenOf(invocation.element),
                          Entities(Each(Known(ChildrenOf(invocation.element)),
                                        "_construct_submodel_element")),
                          outcome)
        ELSE AbortsAtUnknown(ChildrenOf(invocation.element), outcome)

\* an entity constructed with the two valid statements around an unknown one
C20_Witness ==
    /\ ContainerCalled /\ invocation.failsafe
    /\ invocation.element = EntityEl(<<CapabilityOk, Gadget, TemperatureOk>>)
    /\ outcome.val # None
    /\ Len(outcome.val.statement.items) = 2
    /\ Len(ErrorMessages(outcome.log)) = 2

\* the same statements with failsafe=False
C20_WitnessStrict ==
    /\ ContainerCalled /\ ~invocation.failsafe
    /\ invocation.element = EntityEl(<<CapabilityOk, Gadget, TemperatureOk>>)
    /\ Raised(outcome)

-----------------------------------------------------------------------------
(* properties of the mandatory children *)

MandatoryCalled ==
    /\ invocation # None /\ outcome # None
    /\ invocation \in MandatoryCalls

\* the type named in the frame of each of the four identifiable elements
EnclosingTypes ==
    [assetAdministrationShell |-> "AssetAdministrationShell", asset |-> "Asset",
     submodel |-> "Submodel", conceptDescription |-> "ConceptDescription"]

\* the mandatory child with the defect, the type it is converted to and the message
\* of the failure of the helper function
FaultyChild(element) ==
    IF element = ShellNoAssetKeys
    THEN [child |-> Find(element, NS_AAS \o "assetRef"), type |-> "AssetReference",
          msg |-> "XML element " \o NS_AAS \o "assetRef has no child " \o NS_AAS \o "keys!"]
    ELSE [child |-> Find(element, NS_AAS \o "identification"), type |-> "Identifier",
          msg |-> "XML element " \o NS_AAS \o "identification has no attribute with name idType!"]

\* the two lines of the module docstring, for the element and its faulty child
DocstringLines(element, faulty) ==
    <<"KeyError: " \o faulty.msg
      \o "\n -> while converting XML element with tag " \o faulty.child.tag
      \o " to type " \o faulty.type
      \o "\n -> while converting XML element with tag " \o element.tag
      \o " to type " \o EnclosingTypes[LocalTag(element)],
      "Failed to construct " \o EnclosingTypes[LocalTag(element)] \o "!">>

\* C21: with failsafe=True a failure inside a mandatory child leaves the whole
\* enclosing element out: the wrapper of the element returns None and logs the
\* failure, the frame of the child, the frame of the element and then
\* "Failed to construct X!" for the element
C21_MandatoryChildDropsElement ==
    (MandatoryCalled /\ invocation.failsafe) =>
        /\ outcome.exc = NoExc
        /\ outcome.val = None
        /\ ErrorMessages(outcome.log)
            = DocstringLines(invocation.element, FaultyChild(invocation.element))

\* the shell of the module docstring: its identification has no idType
C21_Witness ==
    /\ MandatoryCalled /\ invocation.failsafe
    /\ invocation.element = ShellNoIdType
    /\ outcome.val = None
    /\ Len(outcome.log) = 2

-----------------------------------------------------------------------------
(* properties of _construct_operation_variable *)

\* the constructor has been called on an operationVariable with several elements
SeveralElementsCalled ==
    /\ invocation # None /\ outcome # None
    /\ invocation \in VariableCalls
    /\ Len(Find(invocation.element, NS_AAS \o "value").children) > 1

FirstElement(variable) == Find(variable, NS_AAS \o "value").children[1]

MoreThanOneWarning(variable) ==
    LogLine("WARNING",
            "Value of operation variable has more than one submodel element, using the first one...",
            variable)

\* r is the operation variable of the outcome first of constructing the first
\* element: one warning for the variable, then nothing but what the first element
\* logged
UsesFirst(first, variable, r) ==
    /\ ~Raised(r)
    /\ r.val = OperationVariable(first.val)
    /\ r.log = <<MoreThanOneWarning(variable)>> \o first.log

\* r is the failure first of constructing the first element, after the warning
FailsWithFirst(first, variable, r) ==
    /\ Raised(r)
    /\ r.exc = first.exc
    /\ r.log = <<MoreThanOneWarning(variable)>> \o first.log

FirstDecides(first, variable, r) ==
    IF Raised(first) THEN FailsWithFirst(first, variable, r) ELSE UsesFirst(first, variable, r)

\* C22 as stated: an operation variable with more than one element is constructed,
\* from its first element and with one warning, whatever the elements are
C22_SeveralElementsSucceed ==
    SeveralElementsCalled =>
        UsesFirst(_failsafe_construct(FirstElement(invocation.element),
                                      "_construct_submodel_element", FALSE),
                  invocation.element, outcome)

\* C22: an operation variable with more than one element logs one warning and
\* constructs its first element only, with failsafe=False whatever the mode: it is
\* constructed from that element, and fails as that element fails
C22_FirstElementDecides ==
    SeveralElementsCalled =>
        FirstDecides(_failsafe_construct(FirstElement(invocation.element),
                                         "_construct_submodel_element", FALSE),
                     invocation.element, outcome)

\* a valid first element before one that fails and one that would log a warning
C22_Witness ==
    /\ SeveralElementsCalled
    /\ Find(invocation.element, NS_AAS \o "value").children
        = <<CapabilityOk, TemperatureBadType, OperationLoud>>
    /\ ~Raised(outcome)
    /\ outcome.val.value.cls = "Capability"
    /\ Len(outcome.log) = 1

-----------------------------------------------------------------------------
(* properties of the mapped helper functions *)

MappedCalled ==
    /\ invocation # None /\ outcome # None
    /\ invocation \in MappedCalls

\* r is the outcome of mapping raw, which is there or not, with the table
MappedOutcome(present, raw, dct, r) ==
    /\ ~Raised(r) <=> (present /\ raw \in DOMAIN dct)
    /\ ~Raised(r) => r.val = dct[raw]
    /\ ~present => Raised(r) /\ r.exc.type = "KeyError"
    /\ (present /\ raw \notin DOMAIN dct) => Raised(r) /\ r.exc.type = "ValueError"
    /\ r.log = <<>>

MappedAsTable ==
    MappedCalled =>
        IF invocation.fn = "_get_attrib_mandatory_mapped"
        THEN MappedOutcome(invocation.attrib \in DOMAIN invocation.element.attrib,
                           IF invocation.attrib \in DOMAIN invocation.element.attrib
                           THEN invocation.element.attrib[invocation.attrib] ELSE NoText,
                           invocation.dct, outcome)
        ELSE MappedOutcome(invocation.element.text # NoText, invocation.element.text,
                           invocation.dct, outcome)

ElementUnchanged == invocation' = invocation

\* C23: _get_attrib_mandatory_mapped and _get_text_mandatory_mapped return dct[raw]
\* exactly when the attribute or text is there and is a key of dct; they raise a
\* KeyError when it is not there, whatever dct is, and a ValueError when it is there
\* and no key of dct; the element is as it was
C23_MappedOrFails == []MappedAsTable /\ [][ElementUnchanged]_vars

\* a text that is there and no key of the table
C23_Witness ==
    /\ MappedCalled
    /\ invocation.fn = "_get_text_mandatory_mapped"
    /\ invocation.element.text = "iri"
    /\ invocation.dct = IDENTIFIER_TYPES_INVERSE
    /\ Raised(outcome)
    /\ outcome.exc.type = "ValueError"

-----------------------------------------------------------------------------
(* properties of _failsafe_construct_mandatory *)

MandatoryFnCalled ==
    /\ invocation # None /\ outcome # None
    /\ invocation \in MandatoryFnCalls

\* the TypeError raised for a None result of the wrapper
IsNoneFault(r) ==
    /\ Raised(r)
    /\ r.exc.type = "TypeError"
    /\ StartsWith(r.exc.msg, "The result of a non-failsafe _failsafe_construct() call was None!")

\* a failure of the constructor with the frame of the wrapper on it
IsChainedFailure(r, element) ==
    /\ Raised(r)
    /\ r.exc.type \in {"KeyError", "ValueError", "Error"}
    /\ r.exc.cause # NoExc
    /\ StartsWith(r.exc.msg, "while converting XML element with tag " \o element.tag \o " to type ")

\* C24: _failsafe_construct_mandatory on an element that is there returns an object
\* or raises the failure of the constructor with the frame of the wrapper, never the
\* TypeError for a None result, whatever the constructor is
C24_NoneFaultUnreachable ==
    MandatoryFnCalled =>
        /\ ~IsNoneFault(outcome)
        /\ IF Raised(outcome) THEN IsChainedFailure(outcome, invocation.element)
           ELSE outcome.val # None

\* a constructor that fails inside a lower wrapper: the failure comes out chained
C24_Witness ==
    /\ MandatoryFnCalled
    /\ invocation.constructor = "_construct_submodel"
    /\ invocation.element = SubmodelBadProperty
    /\ IsChainedFailure(outcome, invocation.element)
    /\ Len(Frames(outcome.exc)) = 2

-----------------------------------------------------------------------------
(* properties of failsafe below the mandatory children *)

CarrierCalled ==
    /\ invocation # None /\ outcome # None
    /\ invocation \in CarrierCalls
TheCarrier == CHOOSE c \in Carriers : c.element = invocation.element

\* one key fails below a mandatory child: the element around it is not constructed
DropsElement(r) ==
    /\ ~Raised(r)
    /\ r.val = None
    /\ Len(ErrorMessages(r.log)) = 2
    /\ StartsWith(ErrorMessages(r.log)[2], "Failed to construct ")
    /\ ErrorMessages(r.log)[2] # "Failed to construct Key!"

\* one key fails in an optional reference: the element is constructed and the
\* reference holds the other keys
DropsKey(carrier, r) ==
    /\ ~Raised(r)
    /\ r.val # None
    /\ r.val[carrier.ref] # None
    /\ Len(r.val[carrier.ref].key) = Len(carrier.keys) - 1
    /\ \A i \in 1..Len(r.val[carrier.ref].key) : r.val[carrier.ref].key[i].cls = "Key"
    /\ Len(ErrorMessages(r.log)) = 2
    /\ ErrorMessages(r.log)[2] = "Failed to construct Key!"

\* C25: failsafe=True does not reach below _failsafe_construct_mandatory: a key that
\* fails in the assetRef of a shell, in the first or second reference of a
\* relationship element or inside the element of an operation variable leaves the
\* shell, the relationship element or the operation variable out, while the same key
\* in a derivedFrom or a valueId that is not below a mandatory child is left out of
\* its reference alone
C25_LeniencyStopsAtMandatory ==
    (CarrierCalled /\ invocation.failsafe) =>
        IF TheCarrier.mandatory THEN DropsElement(outcome) ELSE DropsKey(TheCarrier, outcome)

\* the valueId of a property inside an operation variable: the variable is left out
C25_Witness ==
    /\ CarrierCalled /\ invocation.failsafe
    /\ invocation.element = OperationVariableEl(<<PropertyWithValueId(<<SubmodelKey, BadTypeKey>>)>>)
    /\ outcome.val = None
    /\ ErrorMessages(outcome.log)[2] = "Failed to construct OperationVariable!"

\* the same valueId of the property alone: the key is left out
C25_WitnessOptional ==
    /\ CarrierCalled /\ invocation.failsafe
    /\ invocation.element = PropertyWithValueId(<<SubmodelKey, BadTypeKey>>)
    /\ outcome.val # None
    /\ Len(outcome.val.value_id.key) = 1

-----------------------------------------------------------------------------
(* properties of _construct_file *)

FileCalled ==
    /\ invocation # None /\ outcome # None
    /\ invocation \in FileCalls

HasText(element, tag) ==
    Find(element, NS_AAS \o tag) # None /\ Find(element, NS_AAS \o tag).text # NoText

\* the element without its mimeType children
WithoutMimeType(element) ==
    RemoveAll(element, {c \in Range(element.children) : c.tag = NS_AAS \o "mimeType"})

\* r is the outcome for the file element, bare the outcome for the element without
\* mimeType: the same, a File whenever idShort has text and value, if there, has
\* text, and then one whose mime_type is the text of idShort
MimeTypeIgnored(element, bare, r) ==
    /\ r = bare
    /\ (HasText(element, "idShort")
        /\ (Find(element, NS_AAS \o "value") = None \/ HasText(element, "value")))
            => ~Raised(r)
    /\ ~Raised(r) =>
        /\ r.val.cls = "File"
        /\ r.val.mime_type = Find(element, NS_AAS \o "idShort").text
        /\ r.val.id_short = r.val.mime_type

\* C26: _construct_file does not read the mimeType child: a file element is
\* constructed alike with and without it, and the mime_type of the File is the text
\* of its idShort child
C26_FileMimeTypeIsIdShort ==
    FileCalled =>
        MimeTypeIgnored(invocation.element,
                        Call("_construct_file", WithoutMimeType(invocation.element),
                             invocation.failsafe),
                        outcome)

\* a file with a mimeType that is not the mime_type of the File
C26_Witness ==
    /\ FileCalled
    /\ HasText(invocation.element, "mimeType")
    /\ ~Raised(outcome)
    /\ outcome.val.mime_type = "Doc"
    /\ Find(invocation.element, NS_AAS \o "mimeType").text = "application/pdf"

-----------------------------------------------------------------------------
(* properties of the classes of the exceptions *)

\* the classes of the exceptions of a __cause__ chain
RECURSIVE ChainTypes(_)
ChainTypes(e) == IF e = NoExc THEN {} ELSE {e.type} \cup ChainTypes(e.cause)

\* except (KeyError, ValueError) catches these classes
CaughtByWrapper(e) == e.type \in {"KeyError", "ValueError", "Error"}

\* a wrapper was called and has ended
WrapperCalled ==
    /\ invocation # None /\ outcome # None
    /\ invocation.fn \in {"_failsafe_construct", "_failsafe_construct_mandatory",
                          "_failsafe_construct: except"}

RaisingCalled ==
    /\ invocation # None /\ outcome # None
    /\ invocation \in RaisingCalls

\* the exception that leaves a wrapper has one class all along its chain
OneTypePerChain ==
    (WrapperCalled /\ Raised(outcome)) =>
        ChainTypes(outcome.exc) = {RootCause(outcome.exc).type}

\* the class of the failure of the helper function is the class raised with
\* failsafe=False and the class at the start of the trace with failsafe=True
LeafTypeSurfaces ==
    FaultCalled =>
        IF invocation.failsafe
        THEN StartsWith(ErrorMessages(outcome.log)[1], TheFault.leaf.type \o ": ")
        ELSE Raised(outcome) /\ outcome.exc.type = TheFault.leaf.type

\* what the except clause makes of the exception raised by the constructor
SameTypeOrUntouched ==
    RaisingCalled =>
        IF ~CaughtByWrapper(invocation.raised.exc) THEN outcome = invocation.raised
        ELSE IF invocation.failsafe
        THEN /\ ~Raised(outcome)
             /\ StartsWith(ErrorMessages(outcome.log)[1],
                           RootCause(invocation.raised.exc).type \o ": ")
        ELSE /\ Raised(outcome)
             /\ outcome.exc.type = invocation.raised.exc.type
             /\ outcome.exc.cause = invocation.raised.exc

\* C27: the frame a wrapper adds with failsafe=False has the class of the exception
\* it wraps, so the exception that leaves the outermost wrapper, and the class at the
\* start of the trace logged with failsafe=True, have the class of the failure of
\* the helper function; an exception that is no KeyError and no ValueError leaves
\* the wrapper as it is, in both modes
C27_ExceptionClassPreserved == OneTypePerChain /\ LeafTypeSurfaces /\ SameTypeOrUntouched

\* a binascii.Error wrapped in a binascii.Error
C27_Witness ==
    /\ RaisingCalled /\ ~invocation.failsafe
    /\ invocation.raised.exc.type = "Error"
    /\ invocation.raised.exc.cause # NoExc
    /\ Raised(outcome)
    /\ Len(Frames(outcome.exc)) = 2
    /\ ChainTypes(outcome.exc) = {"Error"}

\* a TypeError that leaves the wrapper with failsafe=True
C27_WitnessUntouched ==
    /\ RaisingCalled /\ invocation.failsafe
    /\ invocation.raised.exc.type = "TypeError"
    /\ Raised(outcome)
    /\ outcome.log = <<>>

-----------------------------------------------------------------------------
(* properties of the kind child *)

KindCalled ==
    /\ invocation # None /\ outcome # None
    /\ invocation \in KindCalls

\* the failure of the wrapper r around an element whose kind child raised a failure
\* of the class: None and the two lines with failsafe=True, the failure with
\* failsafe=False
FailsElement(r, failsafe_, type) ==
    IF failsafe_
    THEN /\ ~Raised(r) /\ r.val = None
         /\ Len(ErrorMessages(r.log)) = 2
         /\ StartsWith(ErrorMessages(r.log)[1], type \o ": ")
    ELSE /\ Raised(r)
         /\ RootCause(r.exc).type = type

\* the outcome r for an element with the kind child, None if it is not there
KindDecides(kind, r, failsafe_) ==
    IF kind = None THEN ~Raised(r) /\ r.val # None /\ r.val.kind = "ModelingKind.INSTANCE"
    ELSE IF kind.text = NoText THEN FailsElement(r, failsafe_, "KeyError")
    ELSE IF kind.text = "Template" THEN ~Raised(r) /\ r.val # None /\ r.val.kind = "ModelingKind.TEMPLATE"
    ELSE IF kind.text = "Instance" THEN ~Raised(r) /\ r.val # None /\ r.val.kind = "ModelingKind.INSTANCE"
    ELSE FailsElement(r, failsafe_, "ValueError")

\* C28: a kind child without text or with a text that is neither Template nor
\* Instance fails the submodel element or submodel it is in: the element is left out
\* with failsafe=True and the failure is raised with failsafe=False; without a kind
\* child the object has the default kind
C28_KindFailsElement ==
    KindCalled =>
        KindDecides(Find(invocation.element, NS_AAS \o "kind"), outcome, invocation.failsafe)

\* a property left out for its kind
C28_Witness ==
    /\ KindCalled /\ invocation.failsafe
    /\ LocalTag(invocation.element) = "property"
    /\ Find(invocation.element, NS_AAS \o "kind") = Txt("kind", "Neither")
    /\ outcome.val = None
    /\ Len(outcome.log) = 2

-----------------------------------------------------------------------------
(* properties of NamespaceIRIGenerator._counter_cache *)

\* the Identifier of the iri of a quoted proposal and a counter
IdOf(proposal_, counter_) ==
    Identifier(Iri(_namespace, proposal_, counter_), "IdentifierType.IRI")

\* the calls that returned for a quoted proposal
CallsOf(p) == {i \in 1..Len(calls) : calls[i].proposal = p}

\* the last call that returned for a quoted proposal
LastCallOf(p) == CHOOSE i \in CallsOf(p) : \A j \in CallsOf(p) : j <= i

\* the cache has an entry for exactly the quoted proposals of the calls that
\* returned: the counter of the Identifier the last of them returned, which is
\* taken once that Identifier is given to the provider
CacheHoldsLastReturned ==
    /\ DOMAIN _counter_cache = {calls[i].proposal : i \in 1..Len(calls)}
    /\ \A p \in DOMAIN _counter_cache :
          /\ calls[LastCallOf(p)].id = IdOf(p, _counter_cache[p])
          /\ calls[LastCallOf(p)].registered => IdOf(p, _counter_cache[p]) \in provider

\* of two consecutive calls with the same quoted proposal the second returns
\* the Identifier of the first exactly when the provider was not given it
SameUnlessRegistered ==
    \A i \in 1..(Len(calls) - 1) :
        calls[i].proposal = calls[i + 1].proposal =>
            (calls[i + 1].id = calls[i].id <=> ~calls[i].registered)

\* every Identifier returned was given to the provider before the next call
AllRegistered == \A i \in 1..(Len(calls) - 1) : calls[i].registered

\* no Identifier was returned twice
PairwiseDistinct ==
    \A i \in 1..Len(calls) : \A j \in 1..Len(calls) : i # j => calls[i].id # calls[j].id

\* an entry of the cache stays, and its counter does not go down
CacheNeverDecreases ==
    \A p \in DOMAIN _counter_cache :
        p \in DOMAIN _counter_cache' /\ _counter_cache'[p] >= _counter_cache[p]

\* C29: the cache of NamespaceIRIGenerator holds, per quoted proposal, the
\* counter of the Identifier last returned for it, not the next free counter;
\* two consecutive generate_id calls with the same proposal return the same
\* Identifier unless the provider was given the first one in between; when
\* every Identifier returned is given to the provider before the next call,
\* the Identifiers returned are pairwise distinct; and the cached counter of a
\* proposal never decreases
C29_CacheHoldsLastReturned ==
    /\ []CacheHoldsLastReturned
    /\ []SameUnlessRegistered
    /\ [](AllRegistered => PairwiseDistinct)
    /\ [][CacheNeverDecreases]_vars

\* three calls with one proposal: the first Identifier was dropped and returned
\* again, then given to the provider, and the third call returned another one
C29_Witness ==
    /\ Len(calls) = 3
    /\ calls[1].proposal = calls[2].proposal /\ calls[2].proposal = calls[3].proposal
    /\ ~calls[1].registered /\ calls[2].id = calls[1].id
    /\ calls[2].registered /\ calls[3].id # calls[2].id
    /\ _counter_cache[calls[3].proposal] > 0

\* every Identifier given to the provider, a later proposal spells the iri of an
\* earlier return, and the call counts past it
C29_WitnessRegistered ==
    /\ Len(calls) = 3 /\ AllRegistered
    /\ calls[2].id.id = _namespace \o "a_0001"
    /\ calls[3].proposal = "a_0001"
    /\ calls[3].id.id = _namespace \o "a_0001_0001"

=============================================================================
